---- MODULE Spec2Model ----
(***************************************************************************)
(* StackGAN orchestration: the stack build loop of train.py (one           *)
(* StackGANModel per stage under a shared generator super-scope), the      *)
(* loss assembly, the train ops, the hooks returned by                     *)
(* get_sequential_train_hooks and the training loop driven by              *)
(* tfgan.gan_train.                                                        *)
(*                                                                         *)
(* The TensorFlow graph is modelled symbolically: a tensor is a record     *)
(* naming the scope that produced it and its static shape, a variable is   *)
(* its name (a sequence of name tokens, "/" being a token), a scope object *)
(* is a record with an identity.                                           *)
(***************************************************************************)
EXTENDS Integers, Sequences, FiniteSets, TLC

(***************************************************************************)
(* Bounds of the model.                                                    *)
(***************************************************************************)
MaxDepth == 3
MaxTrainSteps == 2
MaxSteps == 2
MaxInitialStep == 1
MaxStat == 1
MaxWeight == 2
MaxStackDepth == 11

\* networks.generator is called with final sizes up to 2 ** MaxLogSize.
MaxLogSize == 14

(***************************************************************************)
(* Program constants (flag defaults and literals of the source).           *)
(***************************************************************************)
batch_size == 8
noise_dim == 64
num_outputs == 3
BaseResolutionLog == 5

VARIABLES
  stack_depth,          \* FLAGS.stack_depth
  train_steps,          \* the GANTrainSteps given to get_sequential_train_hooks
  max_number_of_steps,  \* FLAGS.max_number_of_steps
  pc,                   \* position of main()
  graph,                \* the default graph: collections and scope objects made
  gan_models,           \* the list gan_models of main()
  dis_losses,           \* the list dis_losses of main()
  gen_loss_tuple,       \* the GeneratorLoss of main()
  train_ops,            \* the GANTrainOps of main()
  hooks,                \* the hooks gan_train hands to the session
  global_step,          \* the global step variable of the graph
  initial_step,         \* its value when the session was created
  last_step,            \* StopAtStepHook._last_step
  should_stop,          \* the stop request of the session
  hook_idx,             \* before_run: index of the hook being run
  iteration,            \* RunTrainOpsHook.before_run: loop counter
  ran,                  \* train ops already executed by the current session.run
  dis_runs,             \* per stage: runs of its discriminator op in this step
  gen_runs,             \* runs of the generator op in this step
  steps_done,           \* completed passes of the while loop
  color_weight,         \* FLAGS.color_loss
  gradient_penalty,     \* FLAGS.gradient_penalty
  stats,                \* per stage: runtime (mean, covariance) of generated_data
  color_loss_value,     \* the value color_loss returned
  parameters,           \* per trainable variable: the updates applied to it
  mode,                 \* _gan_model_fn: the mode key of the call
  discriminator_inputs, \* _gan_model_fn: the labels (None, one batch, a list)
  loss_weights,         \* the auxiliary loss weights a loss function is given
  returned,             \* what the call under study returned or raised
  apply_batch_norm,     \* FLAGS.apply_batch_norm
  kwargs,               \* the **kwargs the train op functions are called with
  args                  \* the arguments networks.generator is called with

vars == <<stack_depth, train_steps, max_number_of_steps, pc, graph, gan_models,
          dis_losses, gen_loss_tuple, train_ops, hooks, global_step,
          initial_step, last_step, should_stop, hook_idx, iteration, ran,
          dis_runs, gen_runs, steps_done, color_weight, gradient_penalty,
          stats, color_loss_value, parameters, mode, discriminator_inputs,
          loss_weights,
          returned, apply_batch_norm, kwargs, args>>

\* The variables of the calls studied on their own (the estimator's model
\* function, the loss functions with their auxiliary weights, the train op
\* functions with their keyword arguments), and the batch normalisation flag.
call_vars ==
  <<mode, discriminator_inputs, loss_weights, returned, apply_batch_norm,
    kwargs, args>>

(***************************************************************************)
(* Python helpers.                                                         *)
(***************************************************************************)
\* Python's None (and the empty string): the falsy scope argument.
None == [id |-> 0, name |-> <<>>]

Truthy(x) == x # None

\* seq[k] of Python: 0-based, negative k counts from the end.
PyIndex(seq, k) == IF k >= 0 THEN seq[k + 1] ELSE seq[Len(seq) + k + 1]

\* range(n) of Python.
range(n) == 0 .. (n - 1)

Digits == <<"0", "1", "2", "3", "4", "5", "6", "7", "8", "9">>

\* str(n) for a natural number: its decimal digits.
RECURSIVE str(_)
str(n) == IF n < 10 THEN <<Digits[n + 1]>>
          ELSE str(n \div 10) \o <<Digits[(n % 10) + 1]>>

\* 'name', 'name_1', ...: the i-th name scope opened under one name in one
\* parent scope.
UniqueName(name, i) == IF i = 0 THEN <<name>> ELSE <<name, "_">> \o str(i)

\* 'a/b' of scope nesting.
Join(a, b) == IF a = <<>> THEN b ELSE a \o <<"/">> \o b

\* re.match(scope, name): the filter of tf.get_collection(key, scope).
IsPrefix(p, s) == Len(p) <= Len(s) /\ SubSeq(s, 1, Len(p)) = p

\* The whole part of the binary logarithm of x >= 1.
RECURSIVE floor_log2(_)
floor_log2(x) == IF x <= 1 THEN 0 ELSE 1 + floor_log2(x \div 2)

\* networks.log(x) is the single precision quotient tf.log(x) / tf.log(2.).
\* For x = 2 ** k up to 2 ** 16 the rounded quotient is k itself, except for
\* k = 13 and k = 15, where it is 12.999999 and 14.999999 (IEEE 754 single
\* precision, the logarithms rounded to nearest).
InexactLog == {13, 15}

\* log(x) == int(log(x)) of networks.py, the test of a power of 2, for
\* 1 <= x <= 2 ** 16.
log_is_whole(x) ==
  /\ 2 ^ floor_log2(x) = x
  /\ floor_log2(x) \notin InexactLog

\* int(log(x)) of networks.py for 1 <= x <= 2 ** 16.
log(x) ==
  IF 2 ^ floor_log2(x) = x /\ floor_log2(x) \in InexactLog
  THEN floor_log2(x) - 1
  ELSE floor_log2(x)

(***************************************************************************)
(* Tensors, variables and scope objects of the graph.                      *)
(***************************************************************************)
\* A tensor: the scope whose op produced it, which output it is, its shape.
Tensor(producer, output, shape) ==
  [producer |-> producer, output |-> output, shape |-> shape]

\* A Python list of tensors (networks.generator tests isinstance(inputs, list)).
List(items) == [list |-> items]

IsList(x) == "list" \in DOMAIN x

\* A raised exception, as the result of a call.
Raise(error) == [raised |-> TRUE, error |-> error]

\* An exception raised by a call that had already changed the graph to g.
RaisedIn(error, g) == [raised |-> TRUE, error |-> error, graph |-> g]

\* The graph before main() builds anything.
EmptyGraph ==
  [trainable_variables |-> {}, update_ops |-> {}, scopes_created |-> 0,
   super_scopes_created |-> 0]

\* The graph once a network has been built in it: its variables are in
\* tf.GraphKeys.TRAINABLE_VARIABLES (a variable that is reused is there
\* once), its update ops in tf.GraphKeys.UPDATE_OPS.
add_to_collections(g, net) ==
  [g EXCEPT !.trainable_variables = @ \cup net.variables,
            !.update_ops = @ \cup net.update_ops]

\* tf.variable_scope(name) entered by name: a new VariableScope object.
VariableScope(g, name) == [id |-> g.scopes_created + 1, name |-> name]

\* Mutant: the scope filter is dropped.
trainable_variables_unscoped(g, scope) == g.trainable_variables

\* tf.trainable_variables(scope): the trainable variables whose name the
\* scope name matches as a prefix.
trainable_variables(g, scope) ==
  {v \in g.trainable_variables : IsPrefix(scope, v)}

(***************************************************************************)
(* networks.py                                                             *)
(***************************************************************************)
\* The names 'deconv<k>' of the layers dcgan_generator builds.
DeconvLayers(num_layers) ==
  (IF num_layers > 1 THEN {1} ELSE {}) \cup (2 .. (num_layers - 1))
    \cup {num_layers}

\* Spatial size after the layers of dcgan_generator: deconv1 (stride 1,
\* VALID, kernel 4) when num_layers > 1, the stride-2 layers of
\* range(2, num_layers), the last stride-2 layer.
DeconvSize(in_size, num_layers) ==
  LET s1 == IF num_layers > 1 THEN in_size + 3 ELSE in_size
      mid == Cardinality(2 .. (num_layers - 1))
  IN  s1 * (2 ^ mid) * 2

\* slim.batch_norm of the layer under name scope `layer` with is_training
\* set: the assignments of the moving mean and of the moving variance, added
\* to tf.GraphKeys.UPDATE_OPS.
batch_norm_update_ops(layer) ==
  {Join(layer, <<"BatchNorm", "/", "AssignMovingAvg">>),
   Join(layer, <<"BatchNorm", "/", "AssignMovingAvg_1">>)}

dcgan_generator(inputs, final_size, scope, is_training) ==
  IF ~log_is_whole(final_size) THEN Raise("ValueError")
  ELSE IF final_size < 8 THEN Raise("ValueError")
  ELSE
    LET name == Join(scope, <<"DCGANGenerator">>)
        rank2 == Len(inputs.shape) = 2
        num_layers == IF rank2 THEN log(final_size) - 1
                      ELSE log(final_size) - (log(inputs.shape[2]) - 1) - 1
        in_size == IF rank2 THEN 1 ELSE inputs.shape[2]
        out_size == DeconvSize(in_size, num_layers)
        layers == DeconvLayers(num_layers)
        end_points ==
          [k \in layers |->
             Tensor(name, <<"deconv">> \o str(k),
                    IF k = num_layers
                    THEN <<inputs.shape[1], out_size, out_size, 64>>
                    ELSE <<>>)]
        logits == Tensor(name, <<"logits">>,
                         <<inputs.shape[1], out_size, out_size, num_outputs>>)
        variables ==
          {Join(name, Join(<<"deconv">> \o str(k), <<"weights">>)) : k \in layers}
            \cup {Join(name, <<"logits", "/", "weights">>)}
        \* every layer but the last deconvolution and logits is normalised
        update_ops ==
          IF is_training
          THEN UNION {batch_norm_update_ops(Join(name, <<"deconv">> \o str(k))) :
                        k \in layers \ {num_layers}}
          ELSE {}
    IN  IF out_size # final_size THEN Raise("ValueError")
        ELSE [raised |-> FALSE, logits |-> logits, end_points |-> end_points,
              variables |-> variables, update_ops |-> update_ops]

\* networks.generator(inputs, final_size, apply_batch_norm) called under
\* variable scope `scope`; apply_batch_norm is handed on as is_training.
generator(inputs, final_size, scope, is_training) ==
  LET next_stage == IsList(inputs)
      hidden_in == inputs.list[1]
      noise_in == IF next_stage THEN inputs.list[2] ELSE inputs
      \* tile the noise over the hidden code's grid and concatenate
      noise == IF next_stage
               THEN Tensor(scope, <<"concat">>,
                           <<hidden_in.shape[1], hidden_in.shape[2],
                             hidden_in.shape[2],
                             noise_in.shape[2] + hidden_in.shape[4]>>)
               ELSE noise_in
      num_layers == IF next_stage
                    THEN log(final_size) - (log(noise.shape[2]) - 1) - 1
                    ELSE log(final_size) - 1
      \* the code after the call of dcgan_generator
      outputs(net) ==
        IF net.raised THEN net
        ELSE IF num_layers \notin DOMAIN net.end_points THEN Raise("KeyError")
        ELSE [raised |-> FALSE,
              images |-> Tensor(scope, <<"Tanh">>, net.logits.shape),
              hidden_code |-> net.end_points[num_layers],
              variables |-> net.variables,
              update_ops |-> net.update_ops]
  IN  outputs(dcgan_generator(noise, final_size, scope, is_training))

\* networks.discriminator called under variable scope `scope`; `call` counts
\* the earlier calls under that scope (the variables are reused, the ops of
\* each call are new, under the name scope DCGANDiscriminator,
\* DCGANDiscriminator_1, ...); apply_batch_norm is handed on as is_training.
discriminator(img, scope, call, is_training) ==
  LET name == Join(scope, <<"DCGANDiscriminator">>)
      name_scope == Join(scope, UniqueName("DCGANDiscriminator", call))
      width == img.shape[2]
      layers == 1 .. log(width)
  IN  IF Len(img.shape) # 4 \/ img.shape[2] # img.shape[3]
         \/ ~log_is_whole(width)
      THEN Raise("ValueError")
      ELSE [raised |-> FALSE,
            logits |-> Tensor(scope, <<"logits">> \o str(call),
                              <<img.shape[1], 1>>),
            variables |->
              {Join(name, Join(<<"conv">> \o str(k), <<"weights">>)) : k \in layers}
                \cup {Join(name, <<"Conv", "/", "weights">>)},
            \* every layer but conv1 and the last one, Conv, is normalised
            update_ops |->
              IF is_training
              THEN UNION {batch_norm_update_ops(
                            Join(name_scope, <<"conv">> \o str(k))) :
                            k \in layers \ {1}}
              ELSE {}]

\* Two calls of the discriminator under one scope entered with
\* reuse=tf.AUTO_REUSE share its variables: the kernel of conv1 has the
\* channels of the image, and the kernel of the last layer, Conv, the depth
\* 64 * 2 ** (int(log(width)) - 1); a variable asked for again with another
\* shape is refused.
shares_variables(img, other) ==
  /\ Len(img.shape) = 4
  /\ Len(other.shape) = 4
  /\ img.shape[4] = other.shape[4]
  /\ log(img.shape[2]) = log(other.shape[2])

(***************************************************************************)
(* train.py: the per-stage model builder.                                  *)
(***************************************************************************)
\* Mutant: the super-scope is entered anew for every stage.
_get_or_create_gen_super_scope_always(g, super_scope) ==
  [scope |-> VariableScope(g, <<"Generator">>),
   graph |-> [g EXCEPT !.scopes_created = @ + 1,
                       !.super_scopes_created = @ + 1]]

\* Returns the scope it is given when that is truthy; otherwise enters
\* tf.variable_scope('Generator'), which makes a new scope object.
_get_or_create_gen_super_scope(g, super_scope) ==
  IF ~Truthy(super_scope)
  THEN [scope |-> VariableScope(g, <<"Generator">>),
        graph |-> [g EXCEPT !.scopes_created = @ + 1,
                            !.super_scopes_created = @ + 1]]
  ELSE [scope |-> super_scope, graph |-> g]

\* Mutant: the previous stage's image is fed instead of its hidden code.
get_input_image(models, i, noise) ==
  IF i # 0
  THEN List(<<PyIndex(models, i - 1).generated_data, noise>>)
  ELSE noise

\* The closure get_input of _get_generator_input_for_stage(i, noise), called
\* while `models` is the list gan_models of main().
get_input(models, i, noise) ==
  IF i # 0
  THEN List(<<PyIndex(models, i - 1).generator_hidden_code, noise>>)
  ELSE noise

_get_generator_input_for_stage(i, noise) == [i |-> i, noise |-> noise]

\* Mutant: the batch is resized to the resolution of the next stage.
_get_real_data_for_stage_next(i) ==
  LET resolution == 2 ^ (BaseResolutionLog + 1 + i)
  IN  Tensor(<<"resize_images">> \o str(i), <<"real_data">>,
             <<batch_size, resolution, resolution, 3>>)

\* tf.image.resize_images of the batch to the resolution of stage i.
_get_real_data_for_stage(i) ==
  LET resolution == 2 ^ (BaseResolutionLog + i)
  IN  Tensor(<<"resize_images">> \o str(i), <<"real_data">>,
             <<batch_size, resolution, resolution, 3>>)

\* Mutant: the stage is recorded 1-based.
StackGANModel_one_based(generator_inputs, generated_data, generator_variables, generator_scope, real_data, discriminator_real_outputs, discriminator_gen_outputs, discriminator_variables, discriminator_scope, generator_hidden_code, stage) ==
  [generator_inputs |-> generator_inputs,
   generated_data |-> generated_data,
   generator_variables |-> generator_variables,
   generator_scope |-> generator_scope,
   generator_fn |-> "networks.generator",
   real_data |-> real_data,
   discriminator_real_outputs |-> discriminator_real_outputs,
   discriminator_gen_outputs |-> discriminator_gen_outputs,
   discriminator_variables |-> discriminator_variables,
   discriminator_scope |-> discriminator_scope,
   discriminator_fn |-> "networks.discriminator",
   generator_hidden_code |-> generator_hidden_code,
   stage |-> stage + 1]

\* The positional constructor of the StackGANModel namedtuple.
StackGANModel(generator_inputs, generated_data, generator_variables, generator_scope, real_data, discriminator_real_outputs, discriminator_gen_outputs, discriminator_variables, discriminator_scope, generator_hidden_code, stage) ==
  [generator_inputs |-> generator_inputs,
   generated_data |-> generated_data,
   generator_variables |-> generator_variables,
   generator_scope |-> generator_scope,
   generator_fn |-> "networks.generator",
   real_data |-> real_data,
   discriminator_real_outputs |-> discriminator_real_outputs,
   discriminator_gen_outputs |-> discriminator_gen_outputs,
   discriminator_variables |-> discriminator_variables,
   discriminator_scope |-> discriminator_scope,
   discriminator_fn |-> "networks.discriminator",
   generator_hidden_code |-> generator_hidden_code,
   stage |-> stage]

\* gan_model(...) of main(), called on graph g while `models` is gan_models.
\* Returns the model and the graph it leaves, or the exception raised.
gan_model(g, models, real_data, generator_input_fn, stage, generator_super_scope, check_shapes) ==
  LET current_stage_generator_scope == <<"Generator_stage_">> \o str(stage)
      current_stage_discriminator_scope == <<"Discriminator_stage_">> \o str(stage)
      sup == _get_or_create_gen_super_scope(g, generator_super_scope)
      super_scope == sup.scope
      current_gen_scope ==
        Join(super_scope.name, current_stage_generator_scope)
      generator_inputs ==
        get_input(models, generator_input_fn.i, generator_input_fn.noise)
      final_size == 2 ^ (BaseResolutionLog + stage)
      \* the code after both calls of the discriminator
      after_discriminators(gen, g1, dis_scope, dis_gen, dis_real) ==
        LET gd == [add_to_collections(g1, dis_gen)
                     EXCEPT !.scopes_created = @ + 1]
            g2 == add_to_collections(gd, dis_real)
        IN  IF dis_gen.raised
            THEN RaisedIn(dis_gen.error, [g1 EXCEPT !.scopes_created = @ + 1])
            ELSE IF dis_real.raised THEN RaisedIn(dis_real.error, gd)
            ELSE IF check_shapes /\ gen.images.shape # real_data.shape
            THEN RaisedIn("ValueError", g2)
            ELSE [raised |-> FALSE,
                  graph |-> g2,
                  model |->
                    StackGANModel(
                      generator_inputs,
                      gen.images,
                      trainable_variables(g2, super_scope.name),
                      super_scope,
                      real_data,
                      dis_real.logits,
                      dis_gen.logits,
                      trainable_variables(g2, dis_scope.name),
                      dis_scope,
                      gen.hidden_code,
                      stage)]
      \* the code from the discriminator scope on.
      \* tf.convert_to_tensor(real_data) refuses None; the second call of
      \* the discriminator shares the variables of the first
      after_generator(gen, g1, dis_scope) ==
        after_discriminators(
          gen, g1, dis_scope,
          discriminator(gen.images, dis_scope.name, 0, apply_batch_norm),
          IF real_data = None THEN Raise("ValueError")
          ELSE IF ~shares_variables(gen.images, real_data)
          THEN Raise("ValueError")
          ELSE discriminator(real_data, dis_scope.name, 1, apply_batch_norm))
      \* the code after the call of the generator, in graph g1
      with_generator(gen, g1) ==
        IF gen.raised THEN RaisedIn(gen.error, sup.graph)
        ELSE after_generator(
               gen, g1, VariableScope(g1, current_stage_discriminator_scope))
      with_generated(gen) == with_generator(gen, add_to_collections(sup.graph, gen))
  IN  with_generated(generator(generator_inputs, final_size, current_gen_scope,
                               apply_batch_norm))

\* tf.random_normal([FLAGS.batch_size, FLAGS.noise_dim])
Noise == Tensor(<<"random_normal">>, <<"noise">>, <<batch_size, noise_dim>>)

\* The call of gan_model in pass i of the loop that builds the stack, on
\* graph g with `models` built so far.
current_model(g, models, i) ==
  gan_model(g, models,
            _get_real_data_for_stage(i),
            _get_generator_input_for_stage(i, Noise),
            i,
            IF i > 0 THEN PyIndex(models, -1).generator_scope ELSE None,
            TRUE)

\* One pass of the loop `for i in range(FLAGS.stack_depth)` that builds the
\* stack: gan_model for stage i, appended to gan_models.
BuildStage ==
  /\ pc = "build"
  /\ Len(gan_models) < stack_depth
  /\ \E i \in {Len(gan_models)} :
     \E built \in {current_model(graph, gan_models, i)} :
         IF built.raised
         THEN /\ pc' = "failed"
              /\ graph' = built.graph
              /\ UNCHANGED gan_models
         ELSE /\ gan_models' = Append(gan_models, built.model)
              /\ graph' = built.graph
              /\ pc' = IF i + 1 = stack_depth THEN "losses" ELSE "build"
  /\ UNCHANGED <<stack_depth, train_steps, max_number_of_steps, dis_losses,
                 gen_loss_tuple, train_ops, hooks, global_step, initial_step,
                 last_step, should_stop, hook_idx, iteration, ran, dis_runs,
                 gen_runs, steps_done, color_weight, gradient_penalty, stats,
                 color_loss_value>>
  /\ UNCHANGED parameters
  /\ UNCHANGED call_vars

(***************************************************************************)
(* train.py: the loss assembly.  A loss tensor is the sequence of the      *)
(* terms summed into it; a term records the loss function that made it,    *)
(* its weight and the tensors of the model(s) it reads.                    *)
(***************************************************************************)
\* The namedtuples DiscriminatorLoss and GeneratorLoss: one field each.
DiscriminatorLoss(discriminator_loss) ==
  [discriminator_loss |-> discriminator_loss]

GeneratorLoss(generator_loss) == [generator_loss |-> generator_loss]

Term(name, weight, inputs) ==
  [term |-> name, weight |-> weight, inputs |-> inputs]

\* A weight argument: a Python number, or None when it is not supplied.
Number(n) == [value |-> n]

NoWeight == [none |-> TRUE]

IsNumber(w) == "value" \in DOMAIN w

\* _validate_aux_loss_weight of tfgan for a Python number: a weight that is
\* given and negative is refused, any other is returned as it is.
_validate_aux_loss_weight(w) ==
  IF IsNumber(w) /\ w.value < 0 THEN Raise("ValueError")
  ELSE [raised |-> FALSE, weight |-> w]

\* _use_aux_loss of tfgan for a Python number.
_use_aux_loss(w) == IsNumber(w) /\ w.value > 0

\* tfgan.losses.wasserstein_discriminator_loss(model)
wasserstein_discriminator_loss(model) ==
  Term("wasserstein_discriminator_loss", 1,
       {model.discriminator_gen_outputs, model.discriminator_real_outputs})

\* tfgan.losses.wasserstein_gradient_penalty(model)
wasserstein_gradient_penalty(model, weight) ==
  Term("wasserstein_gradient_penalty", weight,
       {model.generated_data, model.real_data})

\* tfgan.losses.wasserstein_generator_loss(model)
wasserstein_generator_loss(model) ==
  Term("wasserstein_generator_loss", 1, {model.discriminator_gen_outputs})

\* tf.losses.get_regularization_loss(scope): no layer of networks.py has a
\* regularizer, so the sum under any scope is the constant 0.
get_regularization_loss(scope) == Term("regularization_loss", 1, {})

\* isinstance(model, cls): a StackGANModel is a namedtuple of its own, an
\* instance of neither tfgan.InfoGANModel nor tfgan.ACGANModel; a model of
\* another class carries its class.
isinstance(model, cls) ==
  IF "class" \in DOMAIN model THEN model.class = cls ELSE cls = "StackGANModel"

\* tfgan.losses.mutual_information_penalty(model)
mutual_information_penalty(model, weight) ==
  Term("mutual_information_penalty", weight, {model.generated_data})

\* tfgan.losses.acgan_discriminator_loss(model)
acgan_discriminator_loss(model, weight) ==
  Term("acgan_discriminator_loss", weight,
       {model.discriminator_gen_outputs, model.discriminator_real_outputs})

\* The terms dis_loss sums once its arguments are accepted.
dis_loss_terms(model, gradient_penalty_weight, mutual_information_penalty_weight, aux_cond_discriminator_weight) ==
  LET base == <<wasserstein_discriminator_loss(model)>>
      gp == IF _use_aux_loss(gradient_penalty_weight)
            THEN <<wasserstein_gradient_penalty(model, gradient_penalty_weight.value)>>
            ELSE <<>>
      info == IF _use_aux_loss(mutual_information_penalty_weight)
              THEN <<mutual_information_penalty(model, mutual_information_penalty_weight.value)>>
              ELSE <<>>
      ac_disc == IF _use_aux_loss(aux_cond_discriminator_weight)
                 THEN <<acgan_discriminator_loss(model, aux_cond_discriminator_weight.value)>>
                 ELSE <<>>
      dis_reg_loss ==
        IF Truthy(model.discriminator_scope)
        THEN <<get_regularization_loss(model.discriminator_scope.name)>>
        ELSE <<>>
  IN  [raised |-> FALSE,
       loss |-> DiscriminatorLoss(base \o gp \o info \o ac_disc \o dis_reg_loss)]

\* Mutant: the model's class is not verified against the weights.
dis_loss_unverified(model, gradient_penalty_weight, mutual_information_penalty_weight, aux_cond_generator_weight, aux_cond_discriminator_weight) ==
  IF \/ _validate_aux_loss_weight(gradient_penalty_weight).raised
     \/ _validate_aux_loss_weight(mutual_information_penalty_weight).raised
     \/ _validate_aux_loss_weight(aux_cond_generator_weight).raised
     \/ _validate_aux_loss_weight(aux_cond_discriminator_weight).raised
  THEN Raise("ValueError")
  ELSE dis_loss_terms(model, gradient_penalty_weight, mutual_information_penalty_weight, aux_cond_discriminator_weight)

\* dis_loss(model, gradient_penalty_weight=..., mutual_information_penalty_weight=...,
\* aux_cond_generator_weight=..., aux_cond_discriminator_weight=...)
dis_loss(model, gradient_penalty_weight, mutual_information_penalty_weight, aux_cond_generator_weight, aux_cond_discriminator_weight) ==
  IF \/ _validate_aux_loss_weight(gradient_penalty_weight).raised
     \/ _validate_aux_loss_weight(mutual_information_penalty_weight).raised
     \/ _validate_aux_loss_weight(aux_cond_generator_weight).raised
     \/ _validate_aux_loss_weight(aux_cond_discriminator_weight).raised
  THEN Raise("ValueError")
  ELSE IF /\ _use_aux_loss(mutual_information_penalty_weight)
          /\ ~isinstance(model, "InfoGANModel")
  THEN Raise("ValueError")
  ELSE IF /\ \/ _use_aux_loss(aux_cond_generator_weight)
             \/ _use_aux_loss(aux_cond_discriminator_weight)
          /\ ~isinstance(model, "ACGANModel")
  THEN Raise("ValueError")
  ELSE dis_loss_terms(model, gradient_penalty_weight, mutual_information_penalty_weight, aux_cond_discriminator_weight)

\* The generated_data tensors the value of color_loss(models) depends on:
\* those of the stages i and i + 1 for i in range(stack_depth - 1).
color_loss_inputs(models, depth) ==
  UNION {{PyIndex(models, i).generated_data,
          PyIndex(models, i + 1).generated_data} : i \in range(depth - 1)}

\* tfgan.losses.acgan_generator_loss(model)
acgan_generator_loss(model, weight) ==
  Term("acgan_generator_loss", weight, {model.discriminator_gen_outputs})

\* The terms the loop of gen_loss adds in its passes for i in range(depth),
\* in order: generator_loss_fn(models[i]) and the auxiliary losses in use.
RECURSIVE stage_gen_losses(_, _, _, _)
stage_gen_losses(models, depth, mutual_information_penalty_weight, aux_cond_generator_weight) ==
  IF depth = 0 THEN <<>>
  ELSE stage_gen_losses(models, depth - 1, mutual_information_penalty_weight,
                        aux_cond_generator_weight)
         \o <<wasserstein_generator_loss(PyIndex(models, depth - 1))>>
         \o (IF _use_aux_loss(mutual_information_penalty_weight)
             THEN <<mutual_information_penalty(
                      PyIndex(models, depth - 1),
                      mutual_information_penalty_weight.value)>>
             ELSE <<>>)
         \o (IF _use_aux_loss(aux_cond_generator_weight)
             THEN <<acgan_generator_loss(PyIndex(models, depth - 1),
                                         aux_cond_generator_weight.value)>>
             ELSE <<>>)

\* Reading the name `model` inside gen_loss: the parameter of gen_loss is
\* `models`, and neither main() nor the module binds a name `model`.
model_in_gen_loss == Raise("NameError")

\* Mutant: only the final stage's adversarial loss is taken.
gen_loss_final_stage(models, depth, weight, mutual_information_penalty_weight, aux_cond_generator_weight) ==
  LET color == IF weight > 0
               THEN <<Term("color_loss", weight, color_loss_inputs(models, depth))>>
               ELSE <<>>
  IN  [raised |-> FALSE,
       loss |-> GeneratorLoss(
                  color \o <<wasserstein_generator_loss(PyIndex(models, -1))>>
                    \o <<get_regularization_loss(
                           PyIndex(models, -1).generator_scope.name)>>)]

\* gen_loss(models, mutual_information_penalty_weight=...,
\* aux_cond_generator_weight=...); `weight` is FLAGS.color_loss.  The first
\* check evaluates isinstance(model, ...) when the weight is in use, the
\* second evaluates `aux_cond_generator_weight and not isinstance(model,
\* ...)`, which reads `model` when the weight is a number other than 0.
gen_loss(models, depth, weight, mutual_information_penalty_weight, aux_cond_generator_weight) ==
  LET color == IF weight > 0
               THEN <<Term("color_loss", weight, color_loss_inputs(models, depth))>>
               ELSE <<>>
      gen_reg_loss ==
        IF Truthy(PyIndex(models, -1).generator_scope)
        THEN <<get_regularization_loss(PyIndex(models, -1).generator_scope.name)>>
        ELSE <<>>
  IN  IF \/ _validate_aux_loss_weight(mutual_information_penalty_weight).raised
         \/ _validate_aux_loss_weight(aux_cond_generator_weight).raised
      THEN Raise("ValueError")
      ELSE IF _use_aux_loss(mutual_information_penalty_weight)
      THEN model_in_gen_loss
      ELSE IF IsNumber(aux_cond_generator_weight)
                /\ aux_cond_generator_weight.value # 0
      THEN model_in_gen_loss
      ELSE [raised |-> FALSE,
            loss |-> GeneratorLoss(
                       color
                         \o stage_gen_losses(models, depth,
                                             mutual_information_penalty_weight,
                                             aux_cond_generator_weight)
                         \o gen_reg_loss)]

\* Mutant: every pass takes the loss of the last stage's model.
current_stage_dis_loss_last(models, i, weight) ==
  dis_loss(PyIndex(models, -1), Number(weight), NoWeight, NoWeight, NoWeight)

\* The call of dis_loss in pass i of the loop that instantiates the
\* discriminator losses.
current_stage_dis_loss(models, i, weight) ==
  dis_loss(PyIndex(models, i), Number(weight), NoWeight, NoWeight, NoWeight)

\* One pass of the loop that instantiates the discriminator losses.
DisLossStage ==
  /\ pc = "losses"
  /\ Len(dis_losses) < stack_depth
  /\ LET i == Len(dis_losses)
         result == current_stage_dis_loss(gan_models, i, gradient_penalty)
     IN  IF result.raised
         THEN /\ pc' = "failed"
              /\ UNCHANGED dis_losses
         ELSE /\ dis_losses' = Append(dis_losses, result.loss)
              /\ pc' = IF i + 1 = stack_depth THEN "gen_loss" ELSE "losses"
  /\ UNCHANGED <<stack_depth, train_steps, max_number_of_steps, graph,
                 gan_models, gen_loss_tuple, train_ops, hooks, global_step,
                 initial_step, last_step, should_stop, hook_idx, iteration, ran,
                 dis_runs, gen_runs, steps_done, color_weight, gradient_penalty,
                 stats, color_loss_value>>
  /\ UNCHANGED parameters
  /\ UNCHANGED call_vars

\* gen_loss_tuple = gen_loss(gan_models, ...)
GenLoss ==
  /\ pc = "gen_loss"
  /\ gen_loss_tuple' = gen_loss(gan_models, stack_depth, color_weight,
                              NoWeight, NoWeight).loss
  /\ pc' = "train_ops"
  /\ UNCHANGED <<stack_depth, train_steps, max_number_of_steps, graph,
                 gan_models, dis_losses, train_ops, hooks, global_step,
                 initial_step, last_step, should_stop, hook_idx, iteration, ran,
                 dis_runs, gen_runs, steps_done, color_weight, gradient_penalty,
                 stats, color_loss_value>>
  /\ UNCHANGED parameters
  /\ UNCHANGED call_vars

(***************************************************************************)
(* train.py and namedtuples.py: the train ops.                             *)
(***************************************************************************)
\* A namedtuple instance: its fields in order.
Tuple(fields) == [tuple |-> fields]

IsTuple(x) == "tuple" \in DOMAIN x

\* The elements a Python `for` loop over a list or a tuple visits.
Items(x) == IF IsList(x) THEN x.list ELSE x.tuple

\* GeneratorTrainOp: the fields of GANTrainOps except discriminator_train_op
\* and global_step_inc_op, so the one field generator_train_op.
GeneratorTrainOp(generator_train_op_field) == Tuple(<<generator_train_op_field>>)

\* DiscriminatorTrainOps: the fields of GANTrainOps except
\* generator_train_op and global_step_inc_op, so the one field
\* discriminator_train_op.
DiscriminatorTrainOps(discriminator_train_op_field) ==
  Tuple(<<discriminator_train_op_field>>)

\* tfgan.GANTrainOps(generator_train_op, discriminator_train_op,
\* global_step_inc_op)
GANTrainOps(gen, dis, inc) ==
  [generator_train_op |-> gen, discriminator_train_op |-> dis,
   global_step_inc_op |-> inc]

\* tf.get_collection(tf.GraphKeys.UPDATE_OPS, scope): the update ops whose
\* name the scope name matches as a prefix.  The collection holds the update
\* ops of the batch normalisation layers, none when FLAGS.apply_batch_norm
\* is False.
update_ops_collection(g, scope) ==
  {u \in g.update_ops : IsPrefix(scope, u)}

\* The keyword arguments main() gives both train op functions.
MainKwargs ==
  [summarize_gradients |-> TRUE, colocate_gradients_with_ops |-> TRUE,
   aggregation_method |-> "EXPERIMENTAL_ACCUMULATE_N"]

\* del d[key]
Del(d, key) == [k \in DOMAIN d \ {key} |-> d[k]]

\* _get_gen_update_ops(kwargs, gen_scope): the update ops it returns, and
\* kwargs as the call leaves it (an 'update_ops' entry is deleted).
_get_gen_update_ops(g, kw, gen_scope) ==
  LET given == "update_ops" \in DOMAIN kw
      update_ops == IF given THEN kw.update_ops
                    ELSE update_ops_collection(g, <<>>)
      all_gen_ops == update_ops_collection(g, gen_scope)
  IN  [ops |-> all_gen_ops \cap update_ops,
       kwargs |-> IF given THEN Del(kw, "update_ops") ELSE kw]

\* _get_dis_update_ops(kwargs, dis_scope): the update ops it returns, and
\* kwargs as the call leaves it (an 'update_ops' entry is deleted).
_get_dis_update_ops(g, kw, dis_scope) ==
  LET given == "update_ops" \in DOMAIN kw
      update_ops == IF given THEN kw.update_ops
                    ELSE update_ops_collection(g, <<>>)
      all_dis_ops == update_ops_collection(g, dis_scope)
  IN  [ops |-> all_dis_ops \cap update_ops,
       kwargs |-> IF given THEN Del(kw, "update_ops") ELSE kw]

\* training.create_train_op(total_loss, optimizer, variables_to_train,
\* global_step, update_ops, **kwargs)
create_train_op(name, total_loss, variables_to_train, step, update_ops, kw) ==
  [name |-> name, total_loss |-> total_loss,
   variables_to_train |-> variables_to_train, global_step |-> step,
   update_ops |-> update_ops, kwargs |-> kw]

\* Mutant: the generator train op is given the graph's global step.
generator_train_op_counting(g, model, loss, kw) ==
  GeneratorTrainOp(
    create_train_op(<<"generator_train">>, loss.generator_loss,
                    model.generator_variables,
                    [id |-> 1, name |-> <<"global_step">>],
                    _get_gen_update_ops(g, kw, model.generator_scope.name).ops,
                    _get_gen_update_ops(g, kw, model.generator_scope.name).kwargs))

\* Mutant: the update ops of the whole graph are attached.
generator_train_op_all_update_ops(g, model, loss, kw) ==
  GeneratorTrainOp(
    create_train_op(<<"generator_train">>, loss.generator_loss,
                    model.generator_variables, None,
                    update_ops_collection(g, <<>>),
                    Del(kw, "update_ops")))

\* Mutant: the op trains the variables of the model's own stage only.
generator_train_op_own_stage(g, model, loss, kw) ==
  GeneratorTrainOp(
    create_train_op(<<"generator_train">>, loss.generator_loss,
                    {v \in model.generator_variables :
                       IsPrefix(Join(<<"Generator">>,
                                     <<"Generator_stage_">> \o str(model.stage)),
                                v)},
                    None,
                    _get_gen_update_ops(g, kw, model.generator_scope.name).ops,
                    _get_gen_update_ops(g, kw, model.generator_scope.name).kwargs))

\* generator_train_op(model, loss, optimizer, **kwargs)
generator_train_op(g, model, loss, kw) ==
  LET gen_update_ops == _get_gen_update_ops(g, kw, model.generator_scope.name)
      generator_global_step == None
  IN  GeneratorTrainOp(
        create_train_op(<<"generator_train">>, loss.generator_loss,
                        model.generator_variables, generator_global_step,
                        gen_update_ops.ops, gen_update_ops.kwargs))

\* The first loop of discriminator_train_ops after n passes: the list
\* dis_update_ops, and kwargs as the passes leave it.
RECURSIVE dis_update_ops_loop(_, _, _, _)
dis_update_ops_loop(g, kw, models, n) ==
  IF n = 0 THEN [list |-> <<>>, kwargs |-> kw]
  ELSE LET before == dis_update_ops_loop(g, kw, models, n - 1)
           current_dis_update_ops ==
             _get_dis_update_ops(g, before.kwargs,
                                 PyIndex(models, n - 1).discriminator_scope.name)
       IN  [list |-> Append(before.list, current_dis_update_ops.ops),
            kwargs |-> current_dis_update_ops.kwargs]

\* Mutant: every discriminator op is left to train all trainable variables
\* (what create_train_op does when it is given no variables_to_train).
discriminator_train_ops_all_variables(g, models, losses, depth, kw) ==
  DiscriminatorTrainOps(List(
    [k \in 1 .. depth |->
       create_train_op(UniqueName("discriminator_train", k - 1),
                       PyIndex(losses, k - 1).discriminator_loss,
                       trainable_variables(g, <<>>),
                       None,
                       dis_update_ops_loop(g, kw, models, depth).list[k],
                       dis_update_ops_loop(g, kw, models, depth).kwargs)]))

\* Mutant: every discriminator op is given the update ops of all stages.
discriminator_train_ops_all_update_ops(g, models, losses, depth, kw) ==
  DiscriminatorTrainOps(List(
    [k \in 1 .. depth |->
       create_train_op(UniqueName("discriminator_train", k - 1),
                       PyIndex(losses, k - 1).discriminator_loss,
                       PyIndex(models, k - 1).discriminator_variables,
                       None,
                       UNION {dis_update_ops_loop(g, kw, models, depth).list[j] :
                                j \in 1 .. depth},
                       dis_update_ops_loop(g, kw, models, depth).kwargs)]))

\* discriminator_train_ops(models, losses, optimizer, **kwargs)
discriminator_train_ops(g, models, losses, depth, kw) ==
  LET updates == dis_update_ops_loop(g, kw, models, depth)
      dis_update_ops == updates.list
      discriminator_global_step == None
      disc_train_ops ==
        [k \in 1 .. depth |->
           create_train_op(UniqueName("discriminator_train", k - 1),
                           PyIndex(losses, k - 1).discriminator_loss,
                           PyIndex(models, k - 1).discriminator_variables,
                           discriminator_global_step,
                           dis_update_ops[k],
                           updates.kwargs)]
  IN  DiscriminatorTrainOps(List(disc_train_ops))

\* global_step.assign_add(1)
global_step_inc_op == [name |-> <<"AssignAdd">>, assign_add |-> 1]

\* "Instantiate train ops" of main().
MakeTrainOps ==
  /\ pc = "train_ops"
  /\ train_ops' =
       GANTrainOps(
         generator_train_op(graph, PyIndex(gan_models, -1), gen_loss_tuple,
                            kwargs),
         discriminator_train_ops(graph, gan_models, dis_losses, stack_depth,
                                 kwargs),
         global_step_inc_op)
  /\ pc' = "gan_train"
  /\ UNCHANGED <<stack_depth, train_steps, max_number_of_steps, graph,
                 gan_models, dis_losses, gen_loss_tuple, hooks, global_step,
                 initial_step, last_step, should_stop, hook_idx, iteration, ran,
                 dis_runs, gen_runs, steps_done, color_weight, gradient_penalty,
                 stats, color_loss_value>>
  /\ UNCHANGED parameters
  /\ UNCHANGED call_vars

(***************************************************************************)
(* train.py: the hooks and the training loop of tfgan.gan_train.           *)
(***************************************************************************)
\* RunTrainOpsHook(train_ops, train_steps) of tfgan: anything that is not a
\* list or a tuple is wrapped in a list.
RunTrainOpsHook(ops, steps) ==
  [kind |-> "RunTrainOpsHook",
   train_ops |-> IF IsList(ops) \/ IsTuple(ops) THEN ops ELSE List(<<ops>>),
   train_steps |-> steps]

\* Mutant: the generator hook is put before the discriminator hooks.
get_hooks_generator_first(ops, steps) ==
  LET visited == Items(ops.discriminator_train_op)
  IN  <<RunTrainOpsHook(ops.generator_train_op, steps.generator_train_steps)>>
      \o [k \in 1 .. Len(visited) |->
            RunTrainOpsHook(visited[k], steps.discriminator_train_steps)]

\* get_hooks(train_ops) of get_sequential_train_hooks(train_steps): one hook
\* for every element the loop over train_ops.discriminator_train_op visits,
\* then the generator hook.
get_hooks(ops, steps) ==
  LET visited == Items(ops.discriminator_train_op)
  IN  [k \in 1 .. Len(visited) |->
         RunTrainOpsHook(visited[k], steps.discriminator_train_steps)]
      \o <<RunTrainOpsHook(ops.generator_train_op, steps.generator_train_steps)>>

\* The hooks main() passes to gan_train itself.
StopAtStepHook(num_steps) == [kind |-> "StopAtStepHook", num_steps |-> num_steps]

LoggingTensorHook == [kind |-> "LoggingTensorHook"]

\* The ops one session.run(fetches) executes: every op of the nest.
RECURSIVE Flatten(_)
Flatten(x) ==
  IF IsList(x) \/ IsTuple(x)
  THEN UNION {Flatten(Items(x)[k]) : k \in 1 .. Len(Items(x))}
  ELSE {x}

\* The list of the per-stage discriminator train ops, and the generator op.
DisTrainOpList == train_ops.discriminator_train_op.tuple[1].list

GenTrainOp == train_ops.generator_train_op.tuple[1]

\* tfgan.gan_train(train_ops, logdir, get_hooks_fn, hooks): the hooks of
\* main() followed by those of get_hooks_fn, then the session is created
\* (the global step restored from the log directory) and StopAtStepHook
\* fixes its last step.
GanTrain ==
  /\ pc = "gan_train"
  /\ hooks' = <<StopAtStepHook(max_number_of_steps), LoggingTensorHook>>
                \o get_hooks(train_ops, train_steps)
  /\ \E restored \in 0 .. MaxInitialStep :
       /\ initial_step' = restored
       /\ global_step' = restored
       /\ last_step' = restored + max_number_of_steps
  /\ should_stop' = FALSE
  /\ parameters' = [v \in graph.trainable_variables |-> 0]
  /\ pc' = "loop"
  /\ UNCHANGED <<stack_depth, train_steps, max_number_of_steps, graph,
                 gan_models, dis_losses, gen_loss_tuple, train_ops, hook_idx,
                 iteration, ran, dis_runs, gen_runs, steps_done, color_weight,
                 gradient_penalty, stats, color_loss_value>>
  /\ UNCHANGED call_vars

\* `while not session.should_stop(): session.run(train_op)`: a pass begins
\* with the before_run of the hooks, in the order of the list.
StartStep ==
  /\ pc = "loop"
  /\ ~should_stop
  /\ pc' = "before_run"
  /\ hook_idx' = 1
  /\ iteration' = 0
  /\ ran' = {}
  /\ dis_runs' = [i \in range(stack_depth) |-> 0]
  /\ gen_runs' = 0
  /\ UNCHANGED <<stack_depth, train_steps, max_number_of_steps, graph,
                 gan_models, dis_losses, gen_loss_tuple, train_ops, hooks,
                 global_step, initial_step, last_step, should_stop, steps_done,
                 color_weight, gradient_penalty, stats, color_loss_value>>
  /\ UNCHANGED parameters
  /\ UNCHANGED call_vars

\* before_run of StopAtStepHook and LoggingTensorHook: they only ask for
\* fetches.
BeforeRunFetchOnly ==
  /\ pc = "before_run"
  /\ hook_idx <= Len(hooks)
  /\ hooks[hook_idx].kind # "RunTrainOpsHook"
  /\ hook_idx' = hook_idx + 1
  /\ UNCHANGED <<stack_depth, train_steps, max_number_of_steps, pc, graph,
                 gan_models, dis_losses, gen_loss_tuple, train_ops, hooks,
                 global_step, initial_step, last_step, should_stop, iteration,
                 ran, dis_runs, gen_runs, steps_done, color_weight,
                 gradient_penalty, stats, color_loss_value>>
  /\ UNCHANGED parameters
  /\ UNCHANGED call_vars

\* The effect of one train op on the global step: create_train_op increments
\* the global step it is given, and none when it is given None.
GlobalStepAfter(op, step) == IF Truthy(op.global_step) THEN step + 1 ELSE step

\* The effect of one train op on the variables: the optimizer applies the
\* gradients of the op's loss to its variables_to_train, and to no other.
ParametersAfter(op, values) ==
  [v \in DOMAIN values |->
     IF v \in op.variables_to_train THEN values[v] + 1 ELSE values[v]]

\* RunTrainOpsHook.before_run: `for _ in range(train_steps):
\* session.run(train_ops)`.  One session.run executes every op of its
\* fetches once, in an order the runtime does not fix; this action is one op
\* of the current session.run.
RunTrainOp ==
  /\ pc = "before_run"
  /\ hook_idx <= Len(hooks)
  /\ hooks[hook_idx].kind = "RunTrainOpsHook"
  /\ iteration < hooks[hook_idx].train_steps
  /\ LET fetches == Flatten(hooks[hook_idx].train_ops)
     IN  \E op \in fetches \ ran :
           /\ dis_runs' = [i \in DOMAIN dis_runs |->
                             IF op = PyIndex(DisTrainOpList, i)
                             THEN dis_runs[i] + 1 ELSE dis_runs[i]]
           /\ gen_runs' = IF op = GenTrainOp THEN gen_runs + 1 ELSE gen_runs
           /\ global_step' = GlobalStepAfter(op, global_step)
           /\ parameters' = ParametersAfter(op, parameters)
           /\ IF ran \cup {op} = fetches
              THEN /\ ran' = {}
                   /\ iteration' = iteration + 1
              ELSE /\ ran' = ran \cup {op}
                   /\ iteration' = iteration
  /\ UNCHANGED <<stack_depth, train_steps, max_number_of_steps, pc, graph,
                 gan_models, dis_losses, gen_loss_tuple, train_ops, hooks,
                 initial_step, last_step, should_stop, hook_idx, steps_done,
                 color_weight, gradient_penalty, stats, color_loss_value>>
  /\ UNCHANGED call_vars

\* The loop of RunTrainOpsHook.before_run is over: the next hook.
HookDone ==
  /\ pc = "before_run"
  /\ hook_idx <= Len(hooks)
  /\ hooks[hook_idx].kind = "RunTrainOpsHook"
  /\ iteration >= hooks[hook_idx].train_steps
  /\ hook_idx' = hook_idx + 1
  /\ iteration' = 0
  /\ UNCHANGED <<stack_depth, train_steps, max_number_of_steps, pc, graph,
                 gan_models, dis_losses, gen_loss_tuple, train_ops, hooks,
                 global_step, initial_step, last_step, should_stop, ran,
                 dis_runs, gen_runs, steps_done, color_weight,
                 gradient_penalty, stats, color_loss_value>>
  /\ UNCHANGED parameters
  /\ UNCHANGED call_vars

\* A train op raises while a hook runs it: nothing in main() or gan_train
\* catches it, the run is aborted with whatever the step has done so far.
TrainOpFails ==
  /\ pc = "before_run"
  /\ hook_idx <= Len(hooks)
  /\ hooks[hook_idx].kind = "RunTrainOpsHook"
  /\ iteration < hooks[hook_idx].train_steps
  /\ pc' = "failed"
  /\ UNCHANGED <<stack_depth, train_steps, max_number_of_steps, graph,
                 gan_models, dis_losses, gen_loss_tuple, train_ops, hooks,
                 global_step, initial_step, last_step, should_stop, hook_idx,
                 iteration, ran, dis_runs, gen_runs, steps_done, color_weight,
                 gradient_penalty, stats, color_loss_value>>
  /\ UNCHANGED parameters
  /\ UNCHANGED call_vars

\* After every before_run the session runs the train op of the loop,
\* train_ops.global_step_inc_op; then StopAtStepHook.after_run asks for a
\* stop once the global step has reached its last step.
RunGlobalStepInc ==
  /\ pc = "before_run"
  /\ hook_idx = Len(hooks) + 1
  /\ global_step' = global_step + train_ops.global_step_inc_op.assign_add
  /\ should_stop' = (global_step' >= last_step)
  /\ steps_done' = steps_done + 1
  /\ pc' = "loop"
  /\ UNCHANGED <<stack_depth, train_steps, max_number_of_steps, graph,
                 gan_models, dis_losses, gen_loss_tuple, train_ops, hooks,
                 initial_step, last_step, hook_idx, iteration, ran, dis_runs,
                 gen_runs, color_weight, gradient_penalty, stats,
                 color_loss_value>>
  /\ UNCHANGED parameters
  /\ UNCHANGED call_vars

\* should_stop() is true: the loop and gan_train return.
Stop ==
  /\ pc = "loop"
  /\ should_stop
  /\ pc' = "stopped"
  /\ UNCHANGED <<stack_depth, train_steps, max_number_of_steps, graph,
                 gan_models, dis_losses, gen_loss_tuple, train_ops, hooks,
                 global_step, initial_step, last_step, should_stop, hook_idx,
                 iteration, ran, dis_runs, gen_runs, steps_done, color_weight,
                 gradient_penalty, stats, color_loss_value>>
  /\ UNCHANGED parameters
  /\ UNCHANGED call_vars

(***************************************************************************)
(* The program: main() from the flags to the end of gan_train.             *)
(***************************************************************************)
\* The values of FLAGS.color_loss and FLAGS.gradient_penalty main() is run
\* with.
FlagWeights == {-1, 0, 1}

NoLoss == GeneratorLoss(<<>>)

NoTrainOps == GANTrainOps(None, None, None)

\* main() hands its loss functions no auxiliary weight but the gradient
\* penalty: the others keep their default, None.
NoAuxWeights ==
  [mutual_information_penalty_weight |-> NoWeight,
   aux_cond_generator_weight |-> NoWeight,
   aux_cond_discriminator_weight |-> NoWeight]

Init ==
  /\ apply_batch_norm = FALSE
  /\ kwargs = MainKwargs
  /\ args = None
  /\ stack_depth \in 1 .. MaxDepth
  /\ train_steps \in [generator_train_steps : 0 .. MaxTrainSteps,
                      discriminator_train_steps : 0 .. MaxTrainSteps]
  /\ max_number_of_steps \in 0 .. MaxSteps
  /\ color_weight \in FlagWeights
  /\ gradient_penalty \in FlagWeights
  /\ pc = "build"
  /\ graph = EmptyGraph
  /\ gan_models = <<>>
  /\ dis_losses = <<>>
  /\ gen_loss_tuple = NoLoss
  /\ train_ops = NoTrainOps
  /\ hooks = <<>>
  /\ global_step = 0
  /\ initial_step = 0
  /\ last_step = 0
  /\ should_stop = FALSE
  /\ hook_idx = 0
  /\ iteration = 0
  /\ ran = {}
  /\ dis_runs = [i \in range(stack_depth) |-> 0]
  /\ gen_runs = 0
  /\ steps_done = 0
  /\ stats = <<>>
  /\ color_loss_value = 0
  /\ parameters = <<>>
  /\ mode = "train"
  /\ discriminator_inputs = None
  /\ loss_weights = NoAuxWeights
  /\ returned = None

Next ==
  \/ BuildStage
  \/ DisLossStage
  \/ GenLoss
  \/ MakeTrainOps
  \/ GanTrain
  \/ StartStep
  \/ BeforeRunFetchOnly
  \/ RunTrainOp
  \/ HookDone
  \/ TrainOpFails
  \/ RunGlobalStepInc
  \/ Stop

Spec == Init /\ [][Next]_vars

(***************************************************************************)
(* train.py: color_loss, evaluated on runtime statistics of the generated  *)
(* images.  `samples` gives, for the generated_data tensor of each stage,  *)
(* the mean and the covariance _compute_mean_covariance finds in one run;  *)
(* a statistic is one number here, and the colour-loss weight an integer.  *)
(***************************************************************************)
\* util._compute_mean_covariance(img)
_compute_mean_covariance(img, samples) == samples[img]

\* Mutant: the difference is taken with the wrong sign.
mean_squared_error_sum(labels, predictions) ==
  (labels + predictions) * (labels + predictions)

\* tf.losses.mean_squared_error(labels, predictions) of two statistics.
mean_squared_error(labels, predictions) ==
  (labels - predictions) * (labels - predictions)

\* The body of the loop `for i in range(stack_depth - 1)` summed up to pair
\* (n - 1, n): like_mu + like_cov of every adjacent pair.
RECURSIVE total_color_loss(_, _, _, _)
total_color_loss(means, covariances, weight, n) ==
  IF n <= 0 THEN 0
  ELSE LET i == n - 1
           like_mu == weight * mean_squared_error(PyIndex(means, i),
                                                  PyIndex(means, i + 1))
           like_cov == weight * 5 * mean_squared_error(PyIndex(covariances, i),
                                                       PyIndex(covariances, i + 1))
       IN  total_color_loss(means, covariances, weight, n - 1)
             + (like_mu + like_cov)

\* Mutant: the weight is added to the total instead of multiplying it.
color_loss_added(models, depth, weight, samples) ==
  LET means == [k \in 1 .. Len(models) |->
                  _compute_mean_covariance(models[k].generated_data, samples).mu]
      covariances == [k \in 1 .. Len(models) |->
                  _compute_mean_covariance(models[k].generated_data, samples).cov]
  IN  [raised |-> FALSE,
       value |-> weight + total_color_loss(means, covariances, weight,
                                           depth - 1)]

\* color_loss(models) of main(), with FLAGS.stack_depth = depth and
\* FLAGS.color_loss = weight.
color_loss(models, depth, weight, samples) ==
  LET means == [k \in 1 .. Len(models) |->
                  _compute_mean_covariance(models[k].generated_data, samples).mu]
      covariances == [k \in 1 .. Len(models) |->
                  _compute_mean_covariance(models[k].generated_data, samples).cov]
  IN  IF Len(means) # depth THEN Raise("AssertionError")
      ELSE [raised |-> FALSE,
            value |-> weight * total_color_loss(means, covariances, weight,
                                                depth - 1)]

\* The stack main() builds for a depth: the passes of the build loop, one
\* after the other.
RECURSIVE BuiltStack(_, _, _)
BuiltStack(g, models, depth) ==
  IF Len(models) = depth THEN [graph |-> g, models |-> models]
  ELSE LET built == current_model(g, models, Len(models))
       IN  BuiltStack(built.graph, Append(models, built.model), depth)

StatValues == [mu : 0 .. MaxStat, cov : 0 .. MaxStat]

\* color_loss applied to a built stack, for every depth, weight and runtime
\* statistics within the bounds.
InitColor ==
  /\ apply_batch_norm = FALSE
  /\ kwargs = MainKwargs
  /\ args = None
  /\ stack_depth \in 1 .. MaxDepth
  /\ color_weight \in -1 .. MaxWeight
  /\ gan_models = BuiltStack(EmptyGraph, <<>>, stack_depth).models
  /\ graph = BuiltStack(EmptyGraph, <<>>, stack_depth).graph
  /\ stats \in [{gan_models[k].generated_data : k \in 1 .. stack_depth}
                  -> StatValues]
  /\ pc = "color_loss"
  /\ color_loss_value = 0
  /\ train_steps = [generator_train_steps |-> 1, discriminator_train_steps |-> 1]
  /\ max_number_of_steps = 0
  /\ gradient_penalty = 1
  /\ dis_losses = <<>>
  /\ gen_loss_tuple = NoLoss
  /\ train_ops = NoTrainOps
  /\ hooks = <<>>
  /\ global_step = 0
  /\ initial_step = 0
  /\ last_step = 0
  /\ should_stop = FALSE
  /\ hook_idx = 0
  /\ iteration = 0
  /\ ran = {}
  /\ dis_runs = [i \in range(stack_depth) |-> 0]
  /\ gen_runs = 0
  /\ steps_done = 0
  /\ parameters = <<>>
  /\ mode = "train"
  /\ discriminator_inputs = None
  /\ loss_weights = NoAuxWeights
  /\ returned = None

\* color_loss_value = color_loss(models)
ColorLoss ==
  /\ pc = "color_loss"
  /\ LET result == color_loss(gan_models, stack_depth, color_weight, stats)
     IN  IF result.raised
         THEN /\ pc' = "failed"
              /\ UNCHANGED color_loss_value
         ELSE /\ color_loss_value' = result.value
              /\ pc' = "color_loss_done"
  /\ UNCHANGED <<stack_depth, train_steps, max_number_of_steps, graph,
                 gan_models, dis_losses, gen_loss_tuple, train_ops, hooks,
                 global_step, initial_step, last_step, should_stop, hook_idx,
                 iteration, ran, dis_runs, gen_runs, steps_done, color_weight,
                 gradient_penalty, stats>>
  /\ UNCHANGED parameters
  /\ UNCHANGED call_vars

NextColor == ColorLoss

SpecColor == InitColor /\ [][NextColor]_vars

(***************************************************************************)
(* gan_estimator_impl.py: the model function of the estimator, and the     *)
(* build loop of train.py applied to real data the caller gives.  The      *)
(* modules tfstackgan.python.train, tfstackgan.python.namedtuples and the  *)
(* conditioning network are not part of the source tree; what stands for   *)
(* them is said where it is defined.                                       *)
(***************************************************************************)
ModeKeys == {"train", "eval", "infer"}

\* A batch of real images of stage i of the given shape.
RealData(i, shape) ==
  Tensor(<<"labels_">> \o str(i), <<"real_data">>, shape)

\* The shapes a caller's real data of stage i may have: that of the stage's
\* generated images, twice their size, a size that is no power of 2, and
\* their size in a batch of one more image.
RealShapes(i) ==
  LET r == 2 ^ (BaseResolutionLog + i)
  IN  {<<batch_size, r, r, 3>>, <<batch_size, 2 * r, 2 * r, 3>>,
       <<batch_size, 48, 48, 3>>, <<batch_size + 1, r, r, 3>>}

\* One batch per stage, for every choice of shapes.
RealDataLists(depth) ==
  LET batches == UNION {{RealData(i, shape) : shape \in RealShapes(i)} :
                          i \in range(depth)}
  IN  {List(l) : l \in {f \in [1 .. depth -> batches] :
                          \A k \in 1 .. depth :
                            f[k] \in {RealData(k - 1, shape) :
                                        shape \in RealShapes(k - 1)}}}

\* The labels the estimator may be called with: None, and the real data (a
\* list of batches, or the batch itself when stack_depth is 1).
Labels(depth) ==
  {None} \cup (IF depth = 1 THEN {l.list[1] : l \in RealDataLists(1)}
               ELSE RealDataLists(depth))

\* Unpacking `a, b, c = x`: x has to be a sequence of that many items; a
\* function object is not iterable.
Unpack(x, n) ==
  IF ~(IsTuple(x) \/ IsList(x)) THEN Raise("TypeError")
  ELSE IF Len(Items(x)) # n THEN Raise("ValueError")
  ELSE [raised |-> FALSE, items |-> Items(x)]

\* networks.augment(text_embedding): the augmented conditioning with its
\* mean and log-variance.
augment(text_embedding) ==
  [conditioning |-> Tensor(<<"augment">>, <<"conditioning">>, <<batch_size>>),
   mu |-> Tensor(<<"augment">>, <<"mu">>, <<batch_size>>),
   logvar |-> Tensor(<<"augment">>, <<"logvar">>, <<batch_size>>)]

\* _get_generator_input_for_stage(models, stage, noise_sample, conditioning)
\* of the estimator: it returns the function get_input, it does not call it.
estimator_get_generator_input_for_stage(stage, noise_sample, conditioning) ==
  [closure |-> "get_input", stage |-> stage, noise_sample |-> noise_sample,
   conditioning |-> conditioning]

\* Mutant: prediction mode does not look at the labels.
_gan_model_fn_branch_unchecked(mode_key, labels) ==
  IF mode_key = "train" THEN [raised |-> FALSE, next |-> "make_gan_models"]
  ELSE IF mode_key = "eval" THEN [raised |-> FALSE, next |-> "make_gan_models"]
  ELSE [raised |-> FALSE, next |-> "make_prediction_gan_model"]

\* The branch of _gan_model_fn on the mode: TRAIN and EVAL go to
\* _make_gan_models, anything else is a prediction, which refuses labels.
_gan_model_fn_branch(mode_key, labels) ==
  IF mode_key = "train" THEN [raised |-> FALSE, next |-> "make_gan_models"]
  ELSE IF mode_key = "eval" THEN [raised |-> FALSE, next |-> "make_gan_models"]
  ELSE IF labels # None THEN Raise("ValueError")
  ELSE [raised |-> FALSE, next |-> "make_prediction_gan_model"]

\* Mutant: the labels are indexed by the stage whatever the depth; the item
\* 0 of a batch tensor is its first image.
stage_discriminator_inputs_indexed(labels, stage, depth) ==
  IF labels = None THEN Raise("TypeError")
  ELSE IF ~IsList(labels)
  THEN [raised |-> FALSE, value |-> [labels EXCEPT !.shape = Tail(@)]]
  ELSE IF stage >= Len(labels.list) THEN Raise("IndexError")
  ELSE [raised |-> FALSE, value |-> PyIndex(labels.list, stage)]

\* The entry 'discriminator_inputs' of kwargs in _make_gan_models, without
\* the mu it is paired with.
stage_discriminator_inputs(labels, stage, depth) ==
  IF depth = 1 THEN [raised |-> FALSE, value |-> labels]
  ELSE IF labels = None THEN Raise("TypeError")
  ELSE IF stage >= Len(labels.list) THEN Raise("IndexError")
  ELSE [raised |-> FALSE, value |-> PyIndex(labels.list, stage)]

\* tfstackgan_train.gan_model(generator_fn, discriminator_fn, **kwargs): taken
\* to build a stage as gan_model of train.py does, the shape check under its
\* check_shapes option; the conditioning is left out.
tfstackgan_train_gan_model(g, models, real_data, stage, generator_super_scope, check_shapes) ==
  gan_model(g, models, real_data, _get_generator_input_for_stage(stage, Noise),
            stage, generator_super_scope, check_shapes)

\* Mutant: an exception of a stage ends the loop with the stages built so far.
loop_pass_breaking(models, built, depth) ==
  [raised |-> FALSE,
   models |-> IF built.raised THEN models ELSE Append(models, built.model),
   done |-> built.raised \/ Len(models) + 1 = depth]

\* One pass of a build loop, `current_model = gan_model(...)` then
\* `gan_models.append(current_model)`: an exception leaves the loop and the
\* function at once.
loop_pass(models, built, depth) ==
  [raised |-> built.raised,
   models |-> IF built.raised THEN models ELSE Append(models, built.model),
   done |-> ~built.raised /\ Len(models) + 1 = depth]

\* The body of the loop of _make_prediction_gan_model once the inputs are
\* unpacked: the generator of the stage under the super-scope, and the model
\* with no discriminator.
prediction_stage(sup, models, unpacked, stage, depth) ==
  LET scope == Join(sup.scope.name, <<"Generator_stage_">> \o str(stage))
      generator_inputs == IF unpacked[1] THEN unpacked[2]
                          ELSE List(<<unpacked[2], Noise>>)
      gen == generator(generator_inputs, 2 ^ (6 + stage), scope,
                       apply_batch_norm)
      g1 == add_to_collections(sup.graph, gen)
  IN  IF gen.raised THEN RaisedIn(gen.error, sup.graph)
      ELSE [raised |-> FALSE,
            graph |-> g1,
            model |->
              [StackGANModel(generator_inputs, gen.images,
                             trainable_variables(g1, sup.scope.name),
                             sup.scope, None, None, None, None, None,
                             gen.hidden_code, depth)
                 EXCEPT !.discriminator_fn = None]]

\* The real data and the entry point of the build under study.
InitBuild ==
  /\ apply_batch_norm = FALSE
  /\ kwargs = MainKwargs
  /\ args = None
  /\ stack_depth \in 1 .. MaxDepth
  /\ pc \in {"model_fn", "build_with"}
  /\ mode \in (IF pc = "model_fn" THEN ModeKeys ELSE {"train"})
  /\ discriminator_inputs \in (IF pc = "model_fn" THEN Labels(stack_depth)
                               ELSE RealDataLists(stack_depth))
  /\ graph = EmptyGraph
  /\ gan_models = <<>>
  /\ returned = None
  /\ gradient_penalty = 1
  /\ color_weight = 1
  /\ loss_weights = NoAuxWeights
  /\ stats = <<>>
  /\ color_loss_value = 0
  /\ train_steps = [generator_train_steps |-> 1, discriminator_train_steps |-> 1]
  /\ max_number_of_steps = 0
  /\ dis_losses = <<>>
  /\ gen_loss_tuple = NoLoss
  /\ train_ops = NoTrainOps
  /\ hooks = <<>>
  /\ global_step = 0
  /\ initial_step = 0
  /\ last_step = 0
  /\ should_stop = FALSE
  /\ hook_idx = 0
  /\ iteration = 0
  /\ ran = {}
  /\ dis_runs = [i \in range(stack_depth) |-> 0]
  /\ gen_runs = 0
  /\ steps_done = 0
  /\ parameters = <<>>

\* What the actions of a build leave alone.
not_build_vars ==
  <<stack_depth, train_steps, max_number_of_steps, dis_losses, gen_loss_tuple,
    train_ops, hooks, global_step, initial_step, last_step, should_stop,
    hook_idx, iteration, ran, dis_runs, gen_runs, steps_done, color_weight,
    gradient_penalty, stats, color_loss_value, parameters, mode,
    discriminator_inputs, loss_weights, apply_batch_norm, kwargs,
                 args>>

\* _gan_model_fn up to the call of a _make_..._gan_model(s) function.
GanModelFn ==
  /\ pc = "model_fn"
  /\ LET sup == _get_or_create_gen_super_scope(graph, None)
         branch == _gan_model_fn_branch(mode, discriminator_inputs)
     IN  /\ graph' = sup.graph
         /\ IF branch.raised
            THEN /\ returned' = branch
                 /\ pc' = "failed"
            ELSE /\ returned' = returned
                 /\ pc' = branch.next
  /\ UNCHANGED gan_models
  /\ UNCHANGED not_build_vars

\* One pass of the loop of _make_gan_models; after the last, the list goes
\* to head.create_estimator_spec.
MakeGanModelsStage ==
  /\ pc = "make_gan_models"
  /\ Len(gan_models) < stack_depth
  /\ \E stage \in {Len(gan_models)} :
     \E real \in {stage_discriminator_inputs(discriminator_inputs, stage,
                                             stack_depth)} :
     \E built \in {IF real.raised THEN RaisedIn(real.error, graph)
                   ELSE tfstackgan_train_gan_model(
                          graph, gan_models, real.value, stage,
                          IF stage > 0
                          THEN PyIndex(gan_models, -1).generator_scope
                          ELSE None,
                          FALSE)} :
     \E pass \in {loop_pass(gan_models, built, stack_depth)} :
         /\ graph' = built.graph
         /\ gan_models' = pass.models
         /\ IF pass.raised
            THEN /\ returned' = Raise(built.error)
                 /\ pc' = "failed"
            ELSE IF pass.done
            THEN /\ returned' = List(pass.models)
                 /\ pc' = "create_estimator_spec"
            ELSE /\ returned' = returned
                 /\ pc' = pc
  /\ UNCHANGED not_build_vars

\* One pass of the loop of _make_prediction_gan_model; after the last, the
\* final stage's model goes to head.create_estimator_spec.
MakePredictionStage ==
  /\ pc = "make_prediction_gan_model"
  /\ Len(gan_models) < stack_depth
  /\ \E stage \in {Len(gan_models)} :
     \E sup \in {_get_or_create_gen_super_scope(
                    graph,
                    IF stage > 0 THEN PyIndex(gan_models, -1).generator_scope
                    ELSE None)} :
     \E unpacked \in {Unpack(estimator_get_generator_input_for_stage(
                                stage, Noise, augment(None).conditioning), 3)} :
     \E built \in {IF unpacked.raised THEN RaisedIn(unpacked.error, sup.graph)
                   ELSE prediction_stage(sup, gan_models, unpacked.items,
                                         stage, stack_depth)} :
     \E pass \in {loop_pass(gan_models, built, stack_depth)} :
         /\ graph' = built.graph
         /\ gan_models' = pass.models
         /\ IF pass.raised
            THEN /\ returned' = Raise(built.error)
                 /\ pc' = "failed"
            ELSE IF pass.done
            THEN /\ returned' = PyIndex(pass.models, -1)
                 /\ pc' = "create_estimator_spec"
            ELSE /\ returned' = returned
                 /\ pc' = pc
  /\ UNCHANGED not_build_vars

\* One pass of the build loop of main() on the real data given for the
\* stage, the shape check on as main() leaves it.
BuildStageWith ==
  /\ pc = "build_with"
  /\ Len(gan_models) < stack_depth
  /\ \E i \in {Len(gan_models)} :
     \E built \in {gan_model(graph, gan_models,
                             PyIndex(discriminator_inputs.list, i),
                             _get_generator_input_for_stage(i, Noise),
                             i,
                             IF i > 0
                             THEN PyIndex(gan_models, -1).generator_scope
                             ELSE None,
                             TRUE)} :
     \E pass \in {loop_pass(gan_models, built, stack_depth)} :
         /\ graph' = built.graph
         /\ gan_models' = pass.models
         /\ IF pass.raised
            THEN /\ returned' = Raise(built.error)
                 /\ pc' = "failed"
            ELSE /\ returned' = returned
                 /\ pc' = IF pass.done THEN "losses" ELSE pc
  /\ UNCHANGED not_build_vars

NextBuild ==
  \/ GanModelFn
  \/ MakeGanModelsStage
  \/ MakePredictionStage
  \/ BuildStageWith
  \/ DisLossStage
  \/ GenLoss
  \/ MakeTrainOps

SpecBuild == InitBuild /\ [][NextBuild]_vars

(***************************************************************************)
(* train.py: dis_loss called on its own, with every auxiliary weight and   *)
(* models of the classes its checks distinguish.                           *)
(***************************************************************************)
ModelClasses == {"StackGANModel", "InfoGANModel", "ACGANModel"}

\* A model of class cls with the fields of the stage model m.
ModelOfClass(m, cls) ==
  IF cls = "StackGANModel" THEN m
  ELSE [f \in DOMAIN m \cup {"class"} |-> IF f = "class" THEN cls ELSE m[f]]

\* The weights a caller may give: None, or a Python number.
AuxWeights == {NoWeight} \cup {Number(n) : n \in -1 .. MaxWeight}

InitLoss ==
  /\ apply_batch_norm = FALSE
  /\ kwargs = MainKwargs
  /\ args = None
  /\ stack_depth = 1
  /\ \E cls \in ModelClasses :
       gan_models = <<ModelOfClass(BuiltStack(EmptyGraph, <<>>, 1).models[1], cls)>>
  /\ graph = BuiltStack(EmptyGraph, <<>>, 1).graph
  /\ gradient_penalty \in FlagWeights
  /\ loss_weights \in [mutual_information_penalty_weight : AuxWeights,
                       aux_cond_generator_weight : AuxWeights,
                       aux_cond_discriminator_weight : AuxWeights]
  /\ pc = "dis_loss"
  /\ returned = None
  /\ color_weight = 0
  /\ stats = <<>>
  /\ color_loss_value = 0
  /\ train_steps = [generator_train_steps |-> 1, discriminator_train_steps |-> 1]
  /\ max_number_of_steps = 0
  /\ dis_losses = <<>>
  /\ gen_loss_tuple = NoLoss
  /\ train_ops = NoTrainOps
  /\ hooks = <<>>
  /\ global_step = 0
  /\ initial_step = 0
  /\ last_step = 0
  /\ should_stop = FALSE
  /\ hook_idx = 0
  /\ iteration = 0
  /\ ran = {}
  /\ dis_runs = [i \in range(stack_depth) |-> 0]
  /\ gen_runs = 0
  /\ steps_done = 0
  /\ parameters = <<>>
  /\ mode = "train"
  /\ discriminator_inputs = None

\* returned = dis_loss(model, ...)
DisLossCall ==
  /\ pc = "dis_loss"
  /\ returned' = dis_loss(gan_models[1], Number(gradient_penalty),
                          loss_weights.mutual_information_penalty_weight,
                          loss_weights.aux_cond_generator_weight,
                          loss_weights.aux_cond_discriminator_weight)
  /\ pc' = IF returned'.raised THEN "failed" ELSE "dis_loss_done"
  /\ UNCHANGED <<stack_depth, train_steps, max_number_of_steps, graph,
                 gan_models, dis_losses, gen_loss_tuple, train_ops, hooks,
                 global_step, initial_step, last_step, should_stop, hook_idx,
                 iteration, ran, dis_runs, gen_runs, steps_done, color_weight,
                 gradient_penalty, stats, color_loss_value, parameters, mode,
                 discriminator_inputs, loss_weights, apply_batch_norm, kwargs,
                 args>>

NextLoss == DisLossCall

SpecLoss == InitLoss /\ [][NextLoss]_vars

(***************************************************************************)
(* train.py: gen_loss called on its own, with both auxiliary weights and   *)
(* stacks of models of the classes its checks name.                        *)
(***************************************************************************)
\* The stack of the given depth, every model made a model of class cls.
StackOfClass(depth, cls) ==
  [k \in 1 .. depth |->
     ModelOfClass(BuiltStack(EmptyGraph, <<>>, depth).models[k], cls)]

InitGenLoss ==
  /\ apply_batch_norm = FALSE
  /\ kwargs = MainKwargs
  /\ args = None
  /\ stack_depth \in 1 .. 2
  /\ \E cls \in ModelClasses : gan_models = StackOfClass(stack_depth, cls)
  /\ graph = BuiltStack(EmptyGraph, <<>>, stack_depth).graph
  /\ gradient_penalty = 1
  /\ loss_weights \in [mutual_information_penalty_weight : AuxWeights,
                       aux_cond_generator_weight : AuxWeights,
                       aux_cond_discriminator_weight : {NoWeight}]
  /\ pc = "gen_loss_call"
  /\ returned = None
  /\ color_weight = 1
  /\ stats = <<>>
  /\ color_loss_value = 0
  /\ train_steps = [generator_train_steps |-> 1, discriminator_train_steps |-> 1]
  /\ max_number_of_steps = 0
  /\ dis_losses = <<>>
  /\ gen_loss_tuple = NoLoss
  /\ train_ops = NoTrainOps
  /\ hooks = <<>>
  /\ global_step = 0
  /\ initial_step = 0
  /\ last_step = 0
  /\ should_stop = FALSE
  /\ hook_idx = 0
  /\ iteration = 0
  /\ ran = {}
  /\ dis_runs = [i \in range(stack_depth) |-> 0]
  /\ gen_runs = 0
  /\ steps_done = 0
  /\ parameters = <<>>
  /\ mode = "train"
  /\ discriminator_inputs = None

\* returned = gen_loss(models, ...)
GenLossCall ==
  /\ pc = "gen_loss_call"
  /\ returned' = gen_loss(gan_models, stack_depth, color_weight,
                          loss_weights.mutual_information_penalty_weight,
                          loss_weights.aux_cond_generator_weight)
  /\ pc' = IF returned'.raised THEN "failed" ELSE "gen_loss_done"
  /\ UNCHANGED <<stack_depth, train_steps, max_number_of_steps, graph,
                 gan_models, dis_losses, gen_loss_tuple, train_ops, hooks,
                 global_step, initial_step, last_step, should_stop, hook_idx,
                 iteration, ran, dis_runs, gen_runs, steps_done, color_weight,
                 gradient_penalty, stats, color_loss_value, parameters, mode,
                 discriminator_inputs, loss_weights, apply_batch_norm, kwargs,
                 args>>

NextGenLoss == GenLossCall

SpecGenLoss == InitGenLoss /\ [][NextGenLoss]_vars

(***************************************************************************)
(* train.py: main() up to the train ops, for deeper stacks, with batch     *)
(* normalisation on or off, and with the train op functions called with    *)
(* an 'update_ops' keyword argument or without.                            *)
(***************************************************************************)
\* The update ops the generator of stage 0 registers under batch
\* normalisation.
GeneratorUpdateOps ==
  generator(Noise, 2 ^ BaseResolutionLog,
            Join(<<"Generator">>, <<"Generator_stage_">> \o str(0)),
            TRUE).update_ops

\* The update ops the two discriminator calls of stage i register under
\* batch normalisation.
DiscriminatorUpdateOps(i) ==
  discriminator(_get_real_data_for_stage(i),
                <<"Discriminator_stage_">> \o str(i), 0, TRUE).update_ops
    \cup discriminator(_get_real_data_for_stage(i),
                       <<"Discriminator_stage_">> \o str(i), 1, TRUE).update_ops

\* What a caller may pass as **kwargs: the keyword arguments of main(), as
\* they are or with an 'update_ops' entry made of the update ops of the
\* generator, of the discriminator of stage 0 and of that of stage 1.
CallerKwargs ==
  {MainKwargs}
    \cup {[summarize_gradients |-> TRUE, colocate_gradients_with_ops |-> TRUE,
           aggregation_method |-> "EXPERIMENTAL_ACCUMULATE_N",
           update_ops |-> UNION groups] :
            groups \in SUBSET {GeneratorUpdateOps, DiscriminatorUpdateOps(0),
                               DiscriminatorUpdateOps(1)}}

InitTrainOps ==
  /\ apply_batch_norm \in BOOLEAN
  /\ kwargs \in CallerKwargs
  /\ args = None
  /\ stack_depth \in 1 .. MaxStackDepth
  /\ train_steps = [generator_train_steps |-> 1, discriminator_train_steps |-> 1]
  /\ max_number_of_steps = 0
  /\ color_weight = 1
  /\ gradient_penalty = 1
  /\ pc = "build"
  /\ graph = EmptyGraph
  /\ gan_models = <<>>
  /\ dis_losses = <<>>
  /\ gen_loss_tuple = NoLoss
  /\ train_ops = NoTrainOps
  /\ hooks = <<>>
  /\ global_step = 0
  /\ initial_step = 0
  /\ last_step = 0
  /\ should_stop = FALSE
  /\ hook_idx = 0
  /\ iteration = 0
  /\ ran = {}
  /\ dis_runs = [i \in range(stack_depth) |-> 0]
  /\ gen_runs = 0
  /\ steps_done = 0
  /\ stats = <<>>
  /\ color_loss_value = 0
  /\ parameters = <<>>
  /\ mode = "train"
  /\ discriminator_inputs = None
  /\ loss_weights = NoAuxWeights
  /\ returned = None

NextTrainOps ==
  \/ BuildStage
  \/ DisLossStage
  \/ GenLoss
  \/ MakeTrainOps

SpecTrainOps == InitTrainOps /\ [][NextTrainOps]_vars

(***************************************************************************)
(* networks.py: generator called on its own, for every final size and both *)
(* kinds of input.                                                         *)
(***************************************************************************)
\* The final sizes asked for: the powers of 2 from 4 to 2 ** MaxLogSize,
\* and a size that is no power of 2.
FinalSizes == {2 ^ e : e \in 2 .. MaxLogSize} \cup {48}

\* A hidden code of the given spatial size, as a previous stage returns it.
HiddenCode(size) ==
  Tensor(<<"previous_stage">>, <<"deconv">>, <<batch_size, size, size, 64>>)

\* The inputs of a call for final_size: the noise (first stage), or the
\* list of a hidden code smaller than the image and the noise (next stage).
GeneratorInputs(size) ==
  {Noise} \cup {List(<<HiddenCode(2 ^ h), Noise>>) :
                  h \in {e \in 2 .. MaxLogSize : 2 ^ e < size}}

InitGen ==
  /\ apply_batch_norm \in BOOLEAN
  /\ kwargs = MainKwargs
  /\ \E size \in FinalSizes :
       args \in [inputs : GeneratorInputs(size), final_size : {size}]
  /\ stack_depth = 1
  /\ gan_models = <<>>
  /\ graph = EmptyGraph
  /\ gradient_penalty = 1
  /\ loss_weights = NoAuxWeights
  /\ pc = "generator_call"
  /\ returned = None
  /\ color_weight = 1
  /\ stats = <<>>
  /\ color_loss_value = 0
  /\ train_steps = [generator_train_steps |-> 1, discriminator_train_steps |-> 1]
  /\ max_number_of_steps = 0
  /\ dis_losses = <<>>
  /\ gen_loss_tuple = NoLoss
  /\ train_ops = NoTrainOps
  /\ hooks = <<>>
  /\ global_step = 0
  /\ initial_step = 0
  /\ last_step = 0
  /\ should_stop = FALSE
  /\ hook_idx = 0
  /\ iteration = 0
  /\ ran = {}
  /\ dis_runs = [i \in range(stack_depth) |-> 0]
  /\ gen_runs = 0
  /\ steps_done = 0
  /\ parameters = <<>>
  /\ mode = "train"
  /\ discriminator_inputs = None

\* returned = networks.generator(inputs, final_size, apply_batch_norm)
GeneratorCall ==
  /\ pc = "generator_call"
  /\ returned' = generator(args.inputs, args.final_size, <<"Generator">>,
                           apply_batch_norm)
  /\ pc' = IF returned'.raised THEN "failed" ELSE "generator_done"
  /\ UNCHANGED <<stack_depth, train_steps, max_number_of_steps, graph,
                 gan_models, dis_losses, gen_loss_tuple, train_ops, hooks,
                 global_step, initial_step, last_step, should_stop, hook_idx,
                 iteration, ran, dis_runs, gen_runs, steps_done, color_weight,
                 gradient_penalty, stats, color_loss_value, parameters, mode,
                 discriminator_inputs, loss_weights, apply_batch_norm, kwargs,
                 args>>

NextGen == GeneratorCall

SpecGen == InitGen /\ [][NextGen]_vars

(***************************************************************************)
(* Properties of the alternation schedule.                                 *)
(***************************************************************************)
\* gan_train has been entered: the hooks exist and the loop is running, has
\* stopped, or was aborted by a failing train op.
InTraining == hooks # <<>> /\ pc \in {"loop", "before_run", "stopped", "failed"}

\* The hooks get_hooks returned (those after the two hooks of main()).
TrainHooks == SubSeq(hooks, 3, Len(hooks))

\* The counters are those of a pass of the loop that ran to its end.
StepCompleted == InTraining /\ pc \in {"loop", "stopped"} /\ steps_done > 0

\* In this step some stage's discriminator was updated and another's was not.
ProperSubsetUpdated ==
  \E i, j \in range(stack_depth) : dis_runs[i] > 0 /\ dis_runs[j] = 0

DefaultTrainSteps ==
  [generator_train_steps |-> 1, discriminator_train_steps |-> 1]

\* C1: with the default train steps (1, 1) the hook list get_hooks returns
\* for a stack of depth D has exactly D + 1 entries, the i-th being the hook
\* of stage i's discriminator op alone and the last the generator's hook;
\* every step runs the D discriminator ops in stage order 0..D-1, each
\* exactly once, and then the generator op exactly once, never the generator
\* op before a discriminator op of the step.
C1_SequentialHooks ==
  (InTraining /\ train_steps = DefaultTrainSteps) =>
    /\ Len(TrainHooks) = stack_depth + 1
    /\ \A i \in range(stack_depth) :
         Flatten(TrainHooks[i + 1].train_ops) = {PyIndex(DisTrainOpList, i)}
    /\ Flatten(TrainHooks[Len(TrainHooks)].train_ops) = {GenTrainOp}
    /\ \A i, j \in range(stack_depth) : i < j => dis_runs[i] >= dis_runs[j]
    /\ \A i \in range(stack_depth) : dis_runs[i] <= 1
    /\ gen_runs <= 1
    /\ gen_runs > 0 => \A i \in range(stack_depth) : dis_runs[i] = 1
    /\ StepCompleted =>
         (gen_runs = 1 /\ \A i \in range(stack_depth) : dis_runs[i] = 1)

\* C2 (states): in a step no op runs more often than configured, the
\* generator op runs only after every stage's discriminator op has run d
\* times, a completed step has run every discriminator op d times and the
\* generator op g times, and the global step is its initial value plus the
\* number of completed steps.
C2_Counts ==
  InTraining =>
    /\ \A i \in range(stack_depth) :
         dis_runs[i] <= train_steps.discriminator_train_steps
    /\ gen_runs <= train_steps.generator_train_steps
    /\ gen_runs > 0 =>
         \A i \in range(stack_depth) :
           dis_runs[i] = train_steps.discriminator_train_steps
    /\ StepCompleted =>
         /\ gen_runs = train_steps.generator_train_steps
         /\ \A i \in range(stack_depth) :
              dis_runs[i] = train_steps.discriminator_train_steps
    /\ global_step = initial_step + steps_done

\* C2 (steps): a step that runs a train op leaves the global step alone, and
\* the global step changes during a pass only by 1, once every
\* discriminator op has run d times and the generator op g times.
C2_Increment ==
  pc = "before_run" =>
    /\ (dis_runs' # dis_runs \/ gen_runs' # gen_runs) =>
         global_step' = global_step
    /\ global_step' # global_step =>
         /\ global_step' = global_step + 1
         /\ gen_runs = train_steps.generator_train_steps
         /\ \A i \in range(stack_depth) :
              dis_runs[i] = train_steps.discriminator_train_steps

\* C2: for any GANTrainSteps(g, d) each global training step runs every
\* stage's discriminator op exactly d times, then the generator op exactly g
\* times, then increments the global step by exactly 1; the train ops never
\* change the global step; after k completed steps the counter is its
\* initial value plus k.
C2_Schedule == [](C2_Counts) /\ [][C2_Increment]_vars

\* C2 witness: two steps completed with g = d = 2 on a stack of depth >= 2,
\* from a restored global step.
C2_Witness ==
  /\ pc = "stopped"
  /\ steps_done = 2
  /\ stack_depth >= 2
  /\ train_steps = [generator_train_steps |-> 2, discriminator_train_steps |-> 2]
  /\ initial_step = 1
  /\ global_step = 3

\* C3 as stated: whenever the generator has been advanced or the step
\* completed, every stage's discriminator op has been executed in the step;
\* and once the discriminator updates of a step are over (the generator
\* runs, the step is complete, or the run was aborted by a failing train
\* op), never only a proper subset of the stages has been updated.
C3_NoPartialUpdates ==
  InTraining =>
    /\ (gen_runs > 0 \/ StepCompleted) =>
         \A i \in range(stack_depth) : dis_runs[i] >= 1
    /\ (pc # "before_run" \/ gen_runs > 0) => ~ProperSubsetUpdated

\* The hook being run is the one that holds the discriminator ops.
InDiscriminatorHook ==
  /\ hook_idx \in 1 .. Len(hooks)
  /\ hooks[hook_idx].kind = "RunTrainOpsHook"
  /\ Flatten(hooks[hook_idx].train_ops)
       = {DisTrainOpList[k] : k \in 1 .. Len(DisTrainOpList)}

\* C3 amended: the generator op runs, and the step completes, only after
\* every stage's discriminator op has run the configured d times in the
\* step; only a proper subset of the stages is updated only while the
\* discriminator ops of the step are still being run or after a train op
\* failed among them, and then the generator has not run in the step and
\* the global step has not been incremented for it.
C3_GeneratorAfterAllStages ==
  InTraining =>
    /\ (gen_runs > 0 \/ StepCompleted) =>
         \A i \in range(stack_depth) :
           dis_runs[i] = train_steps.discriminator_train_steps
    /\ ProperSubsetUpdated =>
         /\ pc \in {"before_run", "failed"}
         /\ InDiscriminatorHook
         /\ gen_runs = 0
         /\ global_step = initial_step + steps_done

\* C3 witness: a train op failed after some, not all, stages were updated.
C3_Witness ==
  /\ pc = "failed"
  /\ InTraining
  /\ ProperSubsetUpdated
  /\ train_steps.discriminator_train_steps >= 1

(***************************************************************************)
(* Properties of the built stack.                                          *)
(***************************************************************************)
\* The build loop has returned the whole stack.
StackBuilt == pc # "build" /\ Len(gan_models) = stack_depth

C5_Inputs ==
  \A k \in 1 .. Len(gan_models) :
    LET inputs == gan_models[k].generator_inputs
    IN  IF k = 1 THEN ~IsList(inputs) /\ inputs = Noise
        ELSE /\ IsList(inputs)
             /\ inputs.list[1] = gan_models[k - 1].generator_hidden_code
             /\ inputs.list[1] # Noise
             /\ inputs.list[2] = Noise
             /\ \A j \in 1 .. Len(gan_models) :
                  j # k - 1 =>
                    inputs.list[1] # gan_models[j].generator_hidden_code

\* C5 (steps): the hidden code a new stage is fed is read from the model
\* that was the last of gan_models before the stage was built.
C5_AfterPrevious ==
  (gan_models' # gan_models /\ Len(gan_models) > 0) =>
    /\ Len(gan_models') = Len(gan_models) + 1
    /\ gan_models'[Len(gan_models')].generator_inputs.list[1]
         = gan_models[Len(gan_models)].generator_hidden_code

\* C5: stage 0's generator input is the sampled noise, and for every stage
\* i > 0 the generator input contains the generator_hidden_code of exactly
\* stage i - 1 (of no other stage, and not the noise sample in its place),
\* evaluated after stage i - 1 has been built.
C5_HiddenCodeChain == [](C5_Inputs) /\ [][C5_AfterPrevious]_vars

\* C5 witness: stage 2 of a stack has been given the hidden code of stage 1.
C5_Witness ==
  /\ Len(gan_models) = 3
  /\ IsList(gan_models[3].generator_inputs)
  /\ gan_models[3].generator_inputs.list[1]
       = gan_models[2].generator_hidden_code

\* C6: in one built stack generator_scope is the same scope object in every
\* StackGANModel, and discriminator_scope differs between any two stages,
\* stage i's being 'Discriminator_stage_i'.
C6_Scopes ==
  \A j, k \in 1 .. Len(gan_models) :
    /\ gan_models[j].generator_scope = gan_models[k].generator_scope
    /\ gan_models[k].generator_scope.name = <<"Generator">>
    /\ gan_models[k].discriminator_scope.name
         = <<"Discriminator_stage_">> \o str(k - 1)
    /\ j # k =>
         /\ gan_models[j].discriminator_scope.id
              # gan_models[k].discriminator_scope.id
         /\ gan_models[j].discriminator_scope.name
              # gan_models[k].discriminator_scope.name

\* C6 witness: a built stack of depth 3, whose scopes are three
\* discriminator scopes and one generator scope.
C6_Witness ==
  /\ StackBuilt
  /\ stack_depth = 3
  /\ gan_models[3].generator_scope.id = 1
  /\ gan_models[3].discriminator_scope.id = 4

\* Discriminator parameter sets of different stages share no variable.
DiscriminatorVariablesDisjoint ==
  \A j, k \in 1 .. Len(gan_models) :
    j # k =>
      gan_models[j].discriminator_variables
        \cap gan_models[k].discriminator_variables = {}

\* C7 as stated: after a stack of any depth is built, the generator_variables
\* recorded in every stage's StackGANModel are the same set and the
\* discriminator_variables of any two different stages are disjoint.
C7_SameGeneratorVariables ==
  StackBuilt =>
    /\ \A j, k \in 1 .. Len(gan_models) :
         gan_models[j].generator_variables = gan_models[k].generator_variables
    /\ DiscriminatorVariablesDisjoint

\* C7 amended: every stage's generator_variables are variables of the one
\* super-scope 'Generator' and include the stage's own generator variables,
\* but each record is the snapshot taken when its stage was built: the
\* records are the same set only in a stack of depth 1, and in a deeper
\* stack every two stages' records differ; the discriminator_variables of
\* any two different stages are disjoint and none is a generator variable.
C7_GeneratorVariableSnapshots ==
  StackBuilt =>
    /\ \A k \in 1 .. Len(gan_models) :
         /\ \A v \in gan_models[k].generator_variables :
              IsPrefix(<<"Generator">>, v)
         /\ \E v \in gan_models[k].generator_variables :
              IsPrefix(Join(<<"Generator">>, <<"Generator_stage_">> \o str(k - 1)), v)
         /\ gan_models[k].discriminator_variables # {}
         /\ gan_models[k].discriminator_variables
              \cap gan_models[Len(gan_models)].generator_variables = {}
    /\ \A j, k \in 1 .. Len(gan_models) :
         (gan_models[j].generator_variables = gan_models[k].generator_variables)
           <=> (j = k)
    /\ DiscriminatorVariablesDisjoint

\* C7 witness: a built stack of depth 3 whose first stage records fewer
\* generator variables than its last.
C7_Witness ==
  /\ StackBuilt
  /\ stack_depth = 3
  /\ gan_models[1].generator_variables # gan_models[3].generator_variables
  /\ gan_models[1].generator_variables \subseteq gan_models[3].generator_variables

(***************************************************************************)
(* Properties of the loss assembly.                                        *)
(***************************************************************************)
\* The tensors a stage's model holds.
ModelTensors(m) ==
  {m.generated_data, m.real_data, m.discriminator_real_outputs,
   m.discriminator_gen_outputs, m.generator_hidden_code}

\* The stages (1-based positions in gan_models) whose tensors a term reads.
StagesRead(t) ==
  {k \in 1 .. Len(gan_models) : t.inputs \cap ModelTensors(gan_models[k]) # {}}

\* Both loss instantiations of main() have returned.
LossesAssembled ==
  /\ pc \notin {"build", "losses", "gen_loss"}
  /\ Len(dis_losses) = stack_depth
  /\ gen_loss_tuple # NoLoss

\* C8: for a stack of depth D the loss assembly produces exactly D
\* DiscriminatorLoss values, the i-th computed from stage i's model alone,
\* and exactly one GeneratorLoss for the whole stack; the colour-consistency
\* term is the only loss term that depends on more than one stage.
C8_LossAssembly ==
  /\ Len(dis_losses) <= stack_depth
  /\ pc \in {"train_ops", "gan_train", "loop", "before_run", "stopped"} =>
       LossesAssembled
  /\ \A k \in 1 .. Len(dis_losses) :
       LET terms == dis_losses[k].discriminator_loss
       IN  /\ DOMAIN dis_losses[k] = {"discriminator_loss"}
           /\ Len(terms) >= 1
           /\ StagesRead(terms[1]) = {k}
           /\ \A n \in 1 .. Len(terms) : StagesRead(terms[n]) \subseteq {k}
  /\ LossesAssembled =>
       LET terms == gen_loss_tuple.generator_loss
       IN  /\ DOMAIN gen_loss_tuple = {"generator_loss"}
           /\ \A k \in 1 .. stack_depth :
                \E n \in 1 .. Len(terms) : StagesRead(terms[n]) = {k}
           /\ \A n \in 1 .. Len(terms) :
                Cardinality(StagesRead(terms[n])) > 1 =>
                  terms[n].term = "color_loss"

\* C8 witness: the losses of a stack of depth 3 with a gradient penalty in
\* every discriminator loss and a colour term that reads all three stages.
C8_Witness ==
  /\ pc = "train_ops"
  /\ LossesAssembled
  /\ stack_depth = 3
  /\ \A k \in 1 .. 3 : Len(dis_losses[k].discriminator_loss) = 3
  /\ \E n \in 1 .. Len(gen_loss_tuple.generator_loss) :
       /\ gen_loss_tuple.generator_loss[n].term = "color_loss"
       /\ StagesRead(gen_loss_tuple.generator_loss[n]) = {1, 2, 3}

(***************************************************************************)
(* Properties of color_loss.                                               *)
(***************************************************************************)
\* C9: color_loss applied to a stack of depth 1 returns 0 for every
\* generated image and every colour-loss weight: there is no adjacent
\* pair of stages, so nothing is accumulated.
C9_DepthOneIsZero ==
  stack_depth = 1 =>
    /\ pc # "failed"
    /\ pc = "color_loss_done" => color_loss_value = 0

\* C9 witness: color_loss has returned for depth 1, a weight of 2 and an image
\* with non-zero statistics.
C9_Witness ==
  /\ pc = "color_loss_done"
  /\ stack_depth = 1
  /\ color_weight = 2
  /\ stats[gan_models[1].generated_data] = [mu |-> 1, cov |-> 1]

\* The two stages of a stack of depth 2 have the same mean and covariance.
EqualStatistics ==
  /\ stack_depth = 2
  /\ stats[gan_models[1].generated_data] = stats[gan_models[2].generated_data]

\* C10: color_loss applied to a stack of depth 2 whose two stages have equal
\* generated-data mean and equal covariance returns 0, for every
\* colour-loss weight.
C10_EqualStatisticsIsZero ==
  EqualStatistics =>
    /\ pc # "failed"
    /\ pc = "color_loss_done" => color_loss_value = 0

\* C10 witness: color_loss has returned for depth 2, a non-zero weight and
\* two stages with the same non-zero mean and covariance.
C10_Witness ==
  /\ pc = "color_loss_done"
  /\ EqualStatistics
  /\ color_weight = 2
  /\ stats[gan_models[1].generated_data] = [mu |-> 1, cov |-> 1]

(***************************************************************************)
(* Properties of the loss weights, the step limit and the parameters.      *)
(***************************************************************************)
\* main() has got past the loss assembly.
LossesConstructed ==
  pc \in {"train_ops", "gan_train", "loop", "before_run", "stopped"}

\* C16: a negative loss weight (here the gradient-penalty weight or the
\* colour-loss weight main() takes from its flags) makes loss construction
\* fail at build time; a negative weight is never silently accepted or
\* treated as zero, so no generator loss is ever built with one.
C16_NegativeWeightRefused ==
  (gradient_penalty < 0 \/ color_weight < 0) =>
    /\ ~LossesConstructed
    /\ gen_loss_tuple = NoLoss

\* C18 (safety part): with a step limit of N the loop never runs more than N
\* global steps, and when it has stopped it has run exactly N.
C18_ExactlyNSteps ==
  /\ steps_done <= max_number_of_steps
  /\ pc = "stopped" => steps_done = max_number_of_steps
  /\ (InTraining /\ steps_done >= max_number_of_steps) =>
       /\ gen_runs = 0 \/ pc \in {"loop", "stopped"}
       /\ pc # "before_run"

\* The variables whose value the step changes.
Changed == {v \in DOMAIN parameters : parameters'[v] # parameters[v]}

\* The step runs stage i's discriminator train op.
RunsDiscriminatorOp(i) ==
  pc = "before_run" /\ pc' = "before_run" /\ dis_runs'[i] = dis_runs[i] + 1

\* The step runs the generator train op.
RunsGeneratorOp ==
  pc = "before_run" /\ pc' = "before_run" /\ gen_runs' = gen_runs + 1

\* One step of the program once the session exists.
C19_Step ==
  hooks # <<>> =>
    /\ DOMAIN parameters' = DOMAIN parameters
    /\ \A i \in range(stack_depth) :
         RunsDiscriminatorOp(i) =>
           /\ Changed = PyIndex(gan_models, i).discriminator_variables
           /\ Changed \cap PyIndex(gan_models, -1).generator_variables = {}
           /\ \A j \in range(stack_depth) :
                j # i =>
                  Changed \cap PyIndex(gan_models, j).discriminator_variables = {}
    /\ RunsGeneratorOp =>
         /\ Changed = trainable_variables(graph, <<"Generator">>)
         /\ \A j \in range(stack_depth) :
              Changed \cap PyIndex(gan_models, j).discriminator_variables = {}
    /\ (~RunsGeneratorOp /\ \A i \in range(stack_depth) : ~RunsDiscriminatorOp(i))
         => parameters' = parameters

\* C19: each train op only mutates the parameters it owns: stage i's
\* discriminator train op changes only stage i's discriminator parameters,
\* the generator train op changes only generator parameters, and no other
\* action of a training step changes any parameter.
C19_FrameEffects == [][C19_Step]_vars

\* C19 witness: two steps of a stack of depth 3 with d = 2 and g = 1 have
\* updated every discriminator variable 4 times and every generator
\* variable twice.
C19_Witness ==
  /\ pc = "stopped"
  /\ stack_depth = 3
  /\ steps_done = 2
  /\ \A k \in 1 .. 3 :
       \A v \in gan_models[k].discriminator_variables : parameters[v] = 4
  /\ \A v \in gan_models[3].generator_variables : parameters[v] = 2

\* The term the colour loss is specified to accumulate for the adjacent
\* pair (i, i + 1), with weight w.
PairTerm(i, w) ==
  LET a == stats[PyIndex(gan_models, i).generated_data]
      b == stats[PyIndex(gan_models, i + 1).generated_data]
  IN  w * mean_squared_error(a.mu, b.mu)
        + 5 * w * mean_squared_error(a.cov, b.cov)

\* The sum of PairTerm(i, w) for i in 0 .. n - 1.
RECURSIVE PairTermSum(_, _)
PairTermSum(n, w) ==
  IF n <= 0 THEN 0 ELSE PairTermSum(n - 1, w) + PairTerm(n - 1, w)

\* C20: for a stack of depth D >= 2 with colour-loss weight w, color_loss
\* returns the sum over the adjacent pairs (i, i + 1), i in 0..D-2, of
\* w*MSE(mean_i, mean_i+1) + 5*w*MSE(cov_i, cov_i+1), a value linear in w.
C20_WeightedPairSum ==
  (pc = "color_loss_done" /\ stack_depth >= 2) =>
    color_loss_value = PairTermSum(stack_depth - 1, color_weight)

(***************************************************************************)
(* Properties of dis_loss.                                                 *)
(***************************************************************************)
\* The call of dis_loss has ended, by a return or by an exception.
DisLossEnded == pc \in {"dis_loss_done", "failed"}

\* A weight the caller supplied (not None).
Supplied(w) == IsNumber(w)

\* A supplied weight that asks for its loss term.
SuppliedPositive(w) == IsNumber(w) /\ w.value > 0

\* A supplied weight that is negative.
SuppliedNegative(w) == IsNumber(w) /\ w.value < 0

AnyNegativeWeight ==
  \/ gradient_penalty < 0
  \/ SuppliedNegative(loss_weights.mutual_information_penalty_weight)
  \/ SuppliedNegative(loss_weights.aux_cond_generator_weight)
  \/ SuppliedNegative(loss_weights.aux_cond_discriminator_weight)

Raised(x) == "raised" \in DOMAIN x /\ x.raised

\* C11: on every train/eval build path, a stage whose generated images and
\* real data differ in shape is refused, so that no model of a built stage
\* holds generated and real data of different shapes.
C11_ShapeMismatchRefused ==
  \A k \in 1 .. Len(gan_models) :
    gan_models[k].real_data # None =>
      gan_models[k].generated_data.shape = gan_models[k].real_data.shape

\* C12: a build in prediction mode that is given labels raises ValueError
\* before any stage is built: no model, no variable, and no step into either
\* build loop.
C12_PredictionRefusesLabels ==
  (mode = "infer" /\ discriminator_inputs # None) =>
    /\ gan_models = <<>>
    /\ graph.trainable_variables = {}
    /\ pc \in {"model_fn", "failed"}
    /\ pc = "model_fn" => returned = None
    /\ pc = "failed" => returned = Raise("ValueError")

C12_Witness ==
  /\ mode = "infer"
  /\ discriminator_inputs # None
  /\ stack_depth = MaxDepth
  /\ pc = "failed"
  /\ returned = Raise("ValueError")

\* C13: a build in TRAIN or EVAL mode that is given no labels never
\* completes, and fails with the error of a refused mode (ValueError, as in
\* prediction mode) before anything of a stage is built.
C13_TrainRefusesNoLabels ==
  (mode \in {"train", "eval"} /\ discriminator_inputs = None
     /\ pc \in {"make_gan_models", "failed", "create_estimator_spec"}) =>
    /\ pc # "create_estimator_spec"
    /\ gan_models = <<>>
    /\ graph.trainable_variables = {}
    /\ pc = "failed" => returned = Raise("ValueError")

\* C14: a build in prediction mode without labels never fails, and once it
\* has completed it has built the generator of every stage and returns the
\* model of the last stage, whose discriminator fields are empty.
C14_PredictionCompletes ==
  (mode = "infer" /\ discriminator_inputs = None) =>
    /\ pc # "failed"
    /\ pc = "create_estimator_spec" =>
         /\ Len(gan_models) = stack_depth
         /\ returned = PyIndex(gan_models, -1)
         /\ returned.real_data = None
         /\ returned.discriminator_real_outputs = None
         /\ returned.discriminator_gen_outputs = None
         /\ returned.discriminator_variables = None
         /\ returned.discriminator_scope = None

\* C17: an exception in the construction of a stage is the outcome of the
\* whole build: it ends with the exception, nothing is done after it, no
\* loss and no train op exists, and the losses and the estimator's head are
\* only ever reached with all stack_depth stages built.
C17_Step ==
  /\ pc # "failed"
  /\ pc' = "failed" =>
       /\ Raised(returned')
       /\ Len(gan_models') < stack_depth
       /\ gan_models' = gan_models
       /\ dis_losses' = <<>>
       /\ gen_loss_tuple' = NoLoss
       /\ train_ops' = NoTrainOps
  /\ pc' \in {"losses", "gen_loss", "train_ops", "create_estimator_spec"} =>
       /\ ~Raised(returned')
       /\ Len(gan_models') = stack_depth

C17_ErrorAbortsBuild == [][C17_Step]_vars

C17_Witness ==
  /\ pc = "failed"
  /\ Raised(returned)
  /\ Len(gan_models) >= 1
  /\ Len(gan_models) < stack_depth
  /\ graph.trainable_variables # {}

(***************************************************************************)
(* Properties of the generator loss.                                       *)
(***************************************************************************)
\* The positions of the terms of the generator loss made by loss function f.
GenTermsOf(f) ==
  {n \in 1 .. Len(gen_loss_tuple.generator_loss) :
     gen_loss_tuple.generator_loss[n].term = f}

\* C21: the one GeneratorLoss is the sum of the adversarial generator loss
\* of every stage, each taken exactly once, of the colour term when the
\* colour weight is positive (nothing otherwise), and of the regularisation
\* loss of the generator scope; it has no other term.
C21_GeneratorLossSum ==
  LossesAssembled =>
    LET terms == gen_loss_tuple.generator_loss
    IN  /\ \A k \in 1 .. stack_depth :
             Cardinality({n \in 1 .. Len(terms) :
                            terms[n] = wasserstein_generator_loss(gan_models[k])})
               = 1
        /\ Cardinality(GenTermsOf("wasserstein_generator_loss")) = stack_depth
        /\ Cardinality(GenTermsOf("color_loss"))
             = (IF color_weight > 0 THEN 1 ELSE 0)
        /\ \A n \in GenTermsOf("color_loss") :
             terms[n] = Term("color_loss", color_weight,
                             color_loss_inputs(gan_models, stack_depth))
        /\ Cardinality(GenTermsOf("regularization_loss")) = 1
        /\ \A n \in GenTermsOf("regularization_loss") :
             terms[n] = get_regularization_loss(
                          PyIndex(gan_models, -1).generator_scope.name)
        /\ Len(terms) = stack_depth + 1 + (IF color_weight > 0 THEN 1 ELSE 0)

C21_Witness ==
  /\ pc = "train_ops"
  /\ LossesAssembled
  /\ stack_depth = 3
  /\ color_weight > 0
  /\ Len(gen_loss_tuple.generator_loss) = 5

(***************************************************************************)
(* Properties of the train ops.                                            *)
(***************************************************************************)
\* The update op named u was registered while the name scope `scope` was
\* open: its name starts with 'scope/'.
UnderScope(u, scope) == IsPrefix(scope \o <<"/">>, u)

\* main() has made its GANTrainOps.
TrainOpsMade == train_ops # NoTrainOps

\* The update ops the caller allows: those of its 'update_ops' entry, all
\* of them when kwargs has none.
Allowed(u) == "update_ops" \in DOMAIN kwargs => u \in kwargs.update_ops

\* The op generator_train_op made.
TheGeneratorOp == train_ops.generator_train_op.tuple[1]

\* The op discriminator_train_ops made for stage i.
TheDiscriminatorOp(i) == train_ops.discriminator_train_op.tuple[1].list[i + 1]

DiscriminatorScopeName(i) == <<"Discriminator_stage_">> \o str(i)

\* C22: the update ops of the generator train op are exactly the update ops
\* of the graph registered under the generator super-scope (those of them
\* the caller's 'update_ops' names, when it names any); none of them was
\* registered under a Discriminator_stage_i scope, whatever the depth; and
\* the op trains the generator_variables of the model it was given.
C22_GeneratorOpUpdates ==
  TrainOpsMade =>
    /\ TheGeneratorOp.update_ops
         = {u \in graph.update_ops : UnderScope(u, <<"Generator">>) /\ Allowed(u)}
    /\ \A u \in TheGeneratorOp.update_ops :
         \A i \in range(stack_depth) : ~UnderScope(u, DiscriminatorScopeName(i))
    /\ TheGeneratorOp.variables_to_train
         = PyIndex(gan_models, -1).generator_variables
    /\ "update_ops" \notin DOMAIN TheGeneratorOp.kwargs

\* C22 witness: a stack of depth 3 built with batch normalisation, so that
\* the graph holds update ops of the generator and of three discriminators,
\* and the generator op has some.
C22_Witness ==
  /\ TrainOpsMade
  /\ stack_depth = 3
  /\ apply_batch_norm
  /\ kwargs = MainKwargs
  /\ TheGeneratorOp.update_ops # {}
  /\ \A i \in range(3) :
       \E u \in graph.update_ops : UnderScope(u, DiscriminatorScopeName(i))

\* C23: discriminator_train_ops returns exactly stack_depth ops in stage
\* order; the op of stage i trains stage i's discriminator_variables on
\* stage i's discriminator loss, and each of its update ops was registered
\* under stage i's discriminator scope, none under another stage's or under
\* the generator's; with no 'update_ops' entry in kwargs they are all the
\* update ops of that scope.
C23_DiscriminatorOpsPerStage ==
  TrainOpsMade =>
    /\ Len(train_ops.discriminator_train_op.tuple[1].list) = stack_depth
    /\ \A i \in range(stack_depth) :
         /\ TheDiscriminatorOp(i).name = UniqueName("discriminator_train", i)
         /\ TheDiscriminatorOp(i).variables_to_train
              = PyIndex(gan_models, i).discriminator_variables
         /\ TheDiscriminatorOp(i).total_loss
              = PyIndex(dis_losses, i).discriminator_loss
         /\ \A u \in TheDiscriminatorOp(i).update_ops :
              /\ u \in graph.update_ops
              /\ UnderScope(u, DiscriminatorScopeName(i))
              /\ ~UnderScope(u, <<"Generator">>)
              /\ \A j \in range(stack_depth) :
                   j # i => ~UnderScope(u, DiscriminatorScopeName(j))
         /\ "update_ops" \notin DOMAIN kwargs =>
              TheDiscriminatorOp(i).update_ops
                = {u \in graph.update_ops :
                     UnderScope(u, DiscriminatorScopeName(i))}

\* C23 witness: the deepest stack that can be built, with batch
\* normalisation: every one of its discriminator ops has update ops.
C23_Witness ==
  /\ TrainOpsMade
  /\ stack_depth = 8
  /\ apply_batch_norm
  /\ \A i \in range(8) : TheDiscriminatorOp(i).update_ops # {}

\* C24, as claimed: when the caller passes an 'update_ops' entry, the update
\* ops of every stage's op are those registered under the stage's scope
\* that are in the caller's set, and create_train_op is given no
\* 'update_ops' keyword.
C24_CallerSetRestrictsAllStages ==
  (TrainOpsMade /\ "update_ops" \in DOMAIN kwargs) =>
    \A i \in range(stack_depth) :
      /\ TheDiscriminatorOp(i).update_ops
           = {u \in graph.update_ops :
                UnderScope(u, DiscriminatorScopeName(i))} \cap kwargs.update_ops
      /\ "update_ops" \notin DOMAIN TheDiscriminatorOp(i).kwargs

(***************************************************************************)
(* Properties of gen_loss called with auxiliary weights.                   *)
(***************************************************************************)
\* The call of gen_loss under study has ended.
GenLossEnded == pc \in {"failed", "gen_loss_done"}

\* C25, as claimed: gen_loss raises ValueError, and no other error, when a
\* mutual-information penalty weight in use is given with models that are
\* not InfoGAN models, when an auxiliary-classifier generator weight in use
\* is given with models that are not ACGAN models, and when a weight given
\* is negative.
C25_GenLossValueError ==
  GenLossEnded =>
    LET mi == loss_weights.mutual_information_penalty_weight
        aux == loss_weights.aux_cond_generator_weight
    IN  /\ (SuppliedNegative(mi) \/ SuppliedNegative(aux))
             => returned = Raise("ValueError")
        /\ (SuppliedPositive(mi) /\ ~isinstance(gan_models[1], "InfoGANModel"))
             => returned = Raise("ValueError")
        /\ (SuppliedPositive(aux) /\ ~isinstance(gan_models[1], "ACGANModel"))
             => returned = Raise("ValueError")
        /\ returned.raised => returned.error = "ValueError"

(***************************************************************************)
(* Properties of the real data the estimator hands its stages.             *)
(***************************************************************************)
\* The loop of _make_gan_models is running or has ended.
InMakeGanModels == pc \in {"make_gan_models", "create_estimator_spec"}

\* The real data the k-th model of the list is specified to hold.
StageRealData(k) ==
  IF stack_depth = 1 THEN discriminator_inputs
  ELSE discriminator_inputs.list[k]

\* The labels are what the input pipeline yields for the depth: one batch of
\* the resolution of stage 0 when stack_depth is 1, a list of one batch per
\* stage, each of the resolution of its stage, otherwise.
PipelineLabels ==
  IF stack_depth = 1 THEN discriminator_inputs = RealData(0, <<batch_size, 32, 32, 3>>)
  ELSE /\ IsList(discriminator_inputs)
       /\ \A i \in range(stack_depth) :
            PyIndex(discriminator_inputs.list, i)
              = RealData(i, <<batch_size, 2 ^ (BaseResolutionLog + i),
                              2 ^ (BaseResolutionLog + i), 3>>)

\* C26: in _make_gan_models a stack of depth 1 gives its one stage the
\* whole of the labels as real data, without indexing them, and a deeper
\* stack gives stage i the item i of the labels; with the labels of the
\* input pipeline no stage fails on its real data.
C26_RealDataPerStage ==
  /\ InMakeGanModels =>
       \A k \in 1 .. Len(gan_models) : gan_models[k].real_data = StageRealData(k)
  /\ (PipelineLabels /\ mode # "infer") => pc # "failed"

\* C26 witness: the estimator has built its stack of depth 1 on a batch
\* that is no list.
C26_Witness ==
  /\ pc = "create_estimator_spec"
  /\ stack_depth = 1
  /\ ~IsList(discriminator_inputs)
  /\ Len(gan_models) = 1
  /\ gan_models[1].real_data = discriminator_inputs

(***************************************************************************)
(* Properties of the generator super-scope.                                *)
(***************************************************************************)
\* The build loop has ended with the whole stack.
BuildCompleted ==
  /\ pc \notin {"model_fn", "build_with", "build", "make_gan_models",
                "make_prediction_gan_model", "failed"}
  /\ Len(gan_models) = stack_depth

\* C27, as claimed: _get_or_create_gen_super_scope returns a scope it is
\* given unchanged and makes nothing; the 'Generator' scope is made exactly
\* once in a build, and every stage after the first holds the scope object
\* of the stage before it, on the train.py path and on the estimator path.
C27_SuperScopeCreatedOnce ==
  /\ \A k \in 1 .. Len(gan_models) :
       _get_or_create_gen_super_scope(graph, gan_models[k].generator_scope)
         = [scope |-> gan_models[k].generator_scope, graph |-> graph]
  /\ \A k \in 2 .. Len(gan_models) :
       gan_models[k].generator_scope = gan_models[k - 1].generator_scope
  /\ graph.super_scopes_created <= 1
  /\ BuildCompleted => graph.super_scopes_created = 1

(***************************************************************************)
(* Properties of the generator variables the stages record.                *)
(***************************************************************************)
\* The trainable variables of the graph made by the generator of stage i.
StageGeneratorVariables(i) ==
  {v \in graph.trainable_variables :
     UnderScope(v, Join(<<"Generator">>, <<"Generator_stage_">> \o str(i)))}

\* C28: the generator_variables a stage records are the generator variables
\* of the stages up to it, so the record of stage i is a subset of that of
\* stage i + 1; once the stack is built the final stage's record holds every
\* generator variable of every stage, and the generator train op, made from
\* the final stage's model, trains them all.
C28_GeneratorVariablesGrow ==
  /\ \A k \in 1 .. Len(gan_models) :
       gan_models[k].generator_variables
         = UNION {StageGeneratorVariables(i) : i \in range(k)}
  /\ \A k \in 1 .. Len(gan_models) - 1 :
       gan_models[k].generator_variables
         \subseteq gan_models[k + 1].generator_variables
  /\ \A i \in range(Len(gan_models)) : StageGeneratorVariables(i) # {}
  /\ TrainOpsMade =>
       /\ PyIndex(gan_models, -1).generator_variables
            = UNION {StageGeneratorVariables(i) : i \in range(stack_depth)}
       /\ TheGeneratorOp.variables_to_train
            = UNION {StageGeneratorVariables(i) : i \in range(stack_depth)}

\* C28 witness: train ops made for a stack of depth 3 whose records grow
\* strictly from stage to stage.
C28_Witness ==
  /\ TrainOpsMade
  /\ stack_depth = 3
  /\ gan_models[1].generator_variables # gan_models[2].generator_variables
  /\ gan_models[2].generator_variables # gan_models[3].generator_variables
  /\ TheGeneratorOp.variables_to_train = gan_models[3].generator_variables

(***************************************************************************)
(* Properties of the image shapes of main().                               *)
(***************************************************************************)
\* The shape of a batch of images of stage i.
StageShape(i) == <<batch_size, 2 ^ (5 + i), 2 ^ (5 + i), 3>>

\* Some variable of the graph belongs to stage i, generator or
\* discriminator.
StageStarted(i) ==
  \/ StageGeneratorVariables(i) # {}
  \/ \E v \in graph.trainable_variables : UnderScope(v, DiscriminatorScopeName(i))

\* C29: in main() the generated images and the real data of every stage i
\* built have the one shape (batch_size, 2^(5+i), 2^(5+i), 3), and the shape
\* check of gan_model never fails: a build that fails has failed before it
\* made any part of the stage, and only at stage 8, whose final_size the
\* generator refuses; a stack of depth up to 8 is built whole.
C29_ShapesEqualAtEveryStage ==
  /\ \A k \in 1 .. Len(gan_models) :
       /\ gan_models[k].generated_data.shape = StageShape(k - 1)
       /\ gan_models[k].real_data.shape = StageShape(k - 1)
  /\ pc = "failed" =>
       /\ Len(gan_models) = 8
       /\ ~StageStarted(8)
  /\ pc \notin {"build", "failed"} => Len(gan_models) = stack_depth

\* C29 witness: a stack of depth 3 built whole, its images 32, 64 and 128
\* pixels wide.
C29_Witness ==
  /\ pc = "losses"
  /\ stack_depth = 3
  /\ Len(gan_models) = 3
  /\ gan_models[1].generated_data.shape = <<batch_size, 32, 32, 3>>
  /\ gan_models[2].generated_data.shape = <<batch_size, 64, 64, 3>>
  /\ gan_models[3].generated_data.shape = <<batch_size, 128, 128, 3>>
  /\ \A k \in 1 .. 3 : gan_models[k].real_data.shape = gan_models[k].generated_data.shape

(***************************************************************************)
(* Properties of the layer arithmetic of the generator.                    *)
(***************************************************************************)
\* The call of networks.generator under study has ended.
GeneratorEnded == pc \in {"failed", "generator_done"}

\* final_size is a power of 2 that is at least 8.
PowerOfTwoFrom8 ==
  /\ args.final_size >= 8
  /\ 2 ^ floor_log2(args.final_size) = args.final_size

\* The call is one of the two the stack makes: the noise alone, or a hidden
\* code of half the final size with the noise.
StackCall ==
  /\ PowerOfTwoFrom8
  /\ IsList(args.inputs) => 2 * args.inputs.list[1].shape[2] = args.final_size

\* The number of transposed convolutions the call built: its variables
\* less that of the layer logits.
DeconvsBuilt == Cardinality(returned.variables) - 1

\* C30, as claimed: called with the noise alone and a final_size that is a
\* power of 2 from 8 on, or with a hidden code of half the final size,
\* networks.generator returns an image of final_size x final_size and, as
\* hidden code, the output of the last transposed convolution, of spatial
\* size final_size; the first stage builds log2(final_size) - 1 layers, a
\* later stage exactly one.
C30_LayerArithmetic ==
  (GeneratorEnded /\ StackCall) =>
    /\ ~returned.raised
    /\ returned.images.shape
         = <<batch_size, args.final_size, args.final_size, num_outputs>>
    /\ returned.hidden_code.shape
         = <<batch_size, args.final_size, args.final_size, 64>>
    /\ returned.hidden_code.output = <<"deconv">> \o str(DeconvsBuilt)
    /\ DeconvsBuilt = (IF IsList(args.inputs) THEN 1
                       ELSE floor_log2(args.final_size) - 1)

====
